---- MODULE Spec2Model ----
(***************************************************************************)
(* micr-AI: a browser application that decodes uploaded PDF files, sends   *)
(* their text to a hosted language model, normalises the model's JSON      *)
(* answer into microbial entity records, and keeps a history of extraction *)
(* records mirrored to localStorage.                                       *)
(*                                                                         *)
(* Conventions of the model                                                *)
(*  - a JavaScript string is a sequence of one-character strings;          *)
(*  - a JavaScript number is an integer count of tenths (5 is 0.5, 10 is   *)
(*    1, 5620 is 562), so that the confidence interval [0,1] has interior  *)
(*    points and String(n) is a real conversion;                           *)
(*  - a loosely typed JSON value is a record [t, s, n, a]: t its type tag, *)
(*    s its string, n its number, a its elements (an array) or its         *)
(*    `snippet` property (an object);                                      *)
(*  - crypto.randomUUID() is the least natural number not in use among the *)
(*    identifiers of its kind (only uniqueness is modelled);               *)
(*  - a handler, or the part of an async function between two awaits, is   *)
(*    one step together with the effects of the render that follows it.    *)
(***************************************************************************)
EXTENDS Integers, Sequences, FiniteSets, TLC

VARIABLES
    documents,          \* AppShell state: UploadDocument[]
    records,            \* AppShell state: ExtractionRecord[], most recent first
    settings,           \* AppShell state: StoredSettings
    alerts,             \* AppShell state: AlertMessage[]
    isProcessing,       \* AppShell state
    isRecordsHydrated,  \* AppShell state
    storage,            \* localStorage slot RECORDS_KEY
    pc,                 \* position of the running processDocuments call
    pendingDocuments,   \* processDocuments: the documents filtered at the click
    cursor,             \* processDocuments: index of the loop's document
    runSettings,        \* processDocuments: the settings its closure captured
    parsingStart,       \* processDocuments: performance.now() at the try's entry
    rawText,            \* processDocuments: the decoded text of the loop's document
    now,                \* performance.now(), in ticks
    uploads,            \* the number of documents created so far
    selectable,         \* the files the user has at hand to select or drop
    effects,            \* what the last step did outside: setItem calls, console sites
    call                \* the function under test in the library harnesses

vars == <<documents, records, settings, alerts, isProcessing, isRecordsHydrated,
          storage, pc, pendingDocuments, cursor, runSettings, parsingStart,
          rawText, now, uploads, selectable, effects, call>>

----------------------------------------------------------------------------
(* Bounds of the model *)

\* documents ever added to the list (each takes a fresh identifier)
MaxUploads == 2
\* files in one selection handed to handleFileInput
MaxSelection == 2
\* alerts on the stack at once
MaxAlerts == 2
\* ticks of performance.now(): every awaited step of the pipeline takes one
MaxTime == 4

----------------------------------------------------------------------------
(* Strings *)

Min(a, b) == IF a < b THEN a ELSE b

Whitespace == {" ", "\n", "\t"}

RECURSIVE TrimStart(_)
TrimStart(s) ==
    IF s # <<>> /\ Head(s) \in Whitespace THEN TrimStart(Tail(s)) ELSE s

RECURSIVE TrimEnd(_)
TrimEnd(s) ==
    IF s # <<>> /\ s[Len(s)] \in Whitespace
        THEN TrimEnd(SubSeq(s, 1, Len(s) - 1))
        ELSE s

\* String.prototype.trim
Trim(s) == TrimEnd(TrimStart(s))

\* String.prototype.slice(0, n), n >= 0
Slice0(s, n) == SubSeq(s, 1, Min(n, Len(s)))

\* Array.prototype.join on an array of strings
RECURSIVE Join(_, _)
Join(parts, sep) ==
    IF parts = <<>> THEN <<>>
    ELSE IF Len(parts) = 1 THEN parts[1]
    ELSE parts[1] \o sep \o Join(Tail(parts), sep)

Digit(d) == CASE d = 0 -> "0" [] d = 1 -> "1" [] d = 2 -> "2" [] d = 3 -> "3"
              [] d = 4 -> "4" [] d = 5 -> "5" [] d = 6 -> "6" [] d = 7 -> "7"
              [] d = 8 -> "8" [] d = 9 -> "9"

RECURSIVE NatDigits(_)
NatDigits(k) == IF k < 10 THEN <<Digit(k)>> ELSE NatDigits(k \div 10) \o <<Digit(k % 10)>>

\* String(n) of a finite number, n in tenths
NumberToString(n) ==
    LET m    == IF n < 0 THEN 0 - n ELSE n
        sign == IF n < 0 THEN <<"-">> ELSE <<>>
        frac == IF m % 10 = 0 THEN <<>> ELSE <<".", Digit(m % 10)>>
    IN  sign \o NatDigits(m \div 10) \o frac

----------------------------------------------------------------------------
(* Loosely typed JSON values *)

Undefined   == [t |-> "undefined", s |-> <<>>, n |-> 0, a |-> <<>>]
Null        == [t |-> "null", s |-> <<>>, n |-> 0, a |-> <<>>]
Str(x)      == [t |-> "string", s |-> x, n |-> 0, a |-> <<>>]
Num(x)      == [t |-> "number", s |-> <<>>, n |-> x, a |-> <<>>]
Bool(b)     == [t |-> "boolean", s |-> <<>>, n |-> IF b THEN 1 ELSE 0, a |-> <<>>]
Arr(xs)     == [t |-> "array", s |-> <<>>, n |-> 0, a |-> xs]
\* an object whose only modelled property is `snippet`
Obj(snip)   == [t |-> "object", s |-> <<>>, n |-> 0, a |-> <<snip>>]

\* Boolean(v): JavaScript truthiness
Truthy(v) ==
    CASE v.t = "undefined" -> FALSE
      [] v.t = "null"      -> FALSE
      [] v.t = "string"    -> v.s # <<>>
      [] v.t = "number"    -> v.n # 0
      [] v.t = "boolean"   -> v.n = 1
      [] OTHER             -> TRUE

\* a ?? b
Coalesce(v, d) == IF v.t \in {"undefined", "null"} THEN d ELSE v

----------------------------------------------------------------------------
(* JSON text.  A string handed to JSON.parse is modelled by what the parser *)
(* makes of it: the empty string, whitespace, text that is no JSON, or the   *)
(* text of a value.  AbsentItem is the null that getItem returns for a key  *)
(* that is not set.                                                         *)

AbsentItem      == [kind |-> "absent", value |-> Null]
EmptyText       == [kind |-> "empty", value |-> Null]
BlankText       == [kind |-> "blank", value |-> Null]
GarbageText     == [kind |-> "garbage", value |-> Null]
JsonText(v)     == [kind |-> "json", value |-> v]

\* JSON.parse: throws a SyntaxError on empty or blank text and on text that is no JSON
JSONparse(text) ==
    IF text.kind = "json"
        THEN [threw |-> FALSE, value |-> text.value]
        ELSE [threw |-> TRUE, value |-> Null]

\* the properties of a record or entity that hold loosely typed values
LooseFields == {"genus", "species", "subspecies", "serovar", "strain", "mlst_st",
                "taxonomy_id", "source", "pathogenicity", "context", "confidence",
                "note"}

\* what JSON.stringify keeps of an object: a property whose value is undefined
\* is left out
serializable(object) ==
    [f \in {g \in DOMAIN object :
                ~(g \in LooseFields /\ object[g].t = "undefined")} |-> object[f]]

\* what JSON.stringify keeps of an extraction record
serializableRecord(r) ==
    [f \in DOMAIN serializable(r) |->
        IF f = "entities"
            THEN [i \in DOMAIN r[f] |-> serializable(r[f][i])]
            ELSE r[f]]

\* JSON.stringify of an array of extraction records
JSONstringify(v) ==
    JsonText([v EXCEPT !.a = [i \in DOMAIN v.a |-> serializableRecord(v.a[i])]])

\* raw.trim().length of a text
TrimmedLength(text) == IF text.kind \in {"empty", "blank"} THEN 0 ELSE 1

\* !raw of what getItem returned
Falsy(text) == text.kind \in {"absent", "empty"}

----------------------------------------------------------------------------
(* Entity Normalizer: entitySchema, extractionSchema, extractEntitiesFromText *)

\* confidence: z.number().min(0).max(1), in tenths
ConfidenceMin == 0
ConfidenceMax == 10

StringFields == {"genus", "species", "subspecies", "serovar", "strain",
                 "mlst_st", "source", "pathogenicity"}

\* .optional().nullable()
OptionalNullable(v, ok) == v.t \in {"undefined", "null"} \/ ok

\* z.string().trim().optional().nullable()
TrimmedStringOk(v) == OptionalNullable(v, v.t = "string")
TrimmedStringOut(v) == IF v.t = "string" THEN Str(Trim(v.s)) ELSE v

\* z.union([z.string(), z.number()]).optional().nullable()
TaxonomyOk(v) == OptionalNullable(v, v.t \in {"string", "number"})

\* z.union([z.array(z.string()), z.string()]).optional().nullable()
ResistanceOk(v) ==
    OptionalNullable(v,
        \/ v.t = "string"
        \/ v.t = "array" /\ \A i \in DOMAIN v.a : v.a[i].t = "string")

\* z.object({ snippet: z.string() }).optional().nullable()
ContextOk(v) == OptionalNullable(v, v.t = "object" /\ v.a[1].t = "string")

\* z.number().min(0).max(1).optional().nullable()
ConfidenceOk(v) ==
    OptionalNullable(v, v.t = "number" /\ ConfidenceMin <= v.n /\ v.n <= ConfidenceMax)

\* z.string().optional().nullable()
NoteOk(v) == OptionalNullable(v, v.t = "string")

\* entitySchema accepts e
entitySchemaOk(e) ==
    /\ e.t = "object"
    /\ \A f \in StringFields : TrimmedStringOk(e[f])
    /\ TaxonomyOk(e.taxonomy_id)
    /\ ResistanceOk(e.resistance)
    /\ ContextOk(e.context)
    /\ ConfidenceOk(e.confidence)
    /\ NoteOk(e.note)

\* the keys of entitySchema
SchemaFields == StringFields \cup {"taxonomy_id", "resistance", "context",
                                   "confidence", "note"}

\* the value entitySchema produces for an accepted e: z.object drops the keys
\* it does not know
entitySchemaOut(e) ==
    [f \in DOMAIN e \cap (SchemaFields \cup {"t"}) |->
        IF f \in StringFields THEN TrimmedStringOut(e[f]) ELSE e[f]]

\* summary: z.object({ key_findings: z.array(z.string()).default([]) }).default(...)
summarySchemaOk(v) ==
    \/ v.t = "undefined"
    \/ /\ v.t = "object"
       /\ \/ v.a[1].t = "undefined"
          \/ v.a[1].t = "array" /\ \A i \in DOMAIN v.a[1].a : v.a[1].a[i].t = "string"

\* extractionSchema with the entity check moved into a filter: the entities
\* that fail entitySchema are dropped
extractionSchemaFiltering(content) ==
    LET listed == content.entities.t = "array"
        items == IF listed THEN SelectSeq(content.entities.a, entitySchemaOk) ELSE <<>>
        success == /\ content.t = "object"
                   /\ (listed \/ content.entities.t = "undefined")
                   /\ summarySchemaOk(content.summary)
    IN  [success |-> success,
         entities |-> IF success
                        THEN [i \in DOMAIN items |-> entitySchemaOut(items[i])]
                        ELSE <<>>]

\* extractionSchema.safeParse(content)
extractionSchema(content) ==
    LET entitiesOk ==
            \/ content.entities.t = "undefined"
            \/ /\ content.entities.t = "array"
               /\ \A i \in DOMAIN content.entities.a : entitySchemaOk(content.entities.a[i])
        success == /\ content.t = "object"
                   /\ entitiesOk
                   /\ summarySchemaOk(content.summary)
        items == IF content.entities.t = "undefined" THEN <<>> ELSE content.entities.a
    IN  [success |-> success,
         entities |-> IF success
                        THEN [i \in DOMAIN items |-> entitySchemaOut(items[i])]
                        ELSE <<>>]

\* the resistance array of a parsed entity
resistanceOf(resistanceSource) ==
    LET strings(vs) == [i \in DOMAIN vs |-> vs[i].s]
        nonEmpty(x) == x # <<>>
    IN  IF resistanceSource.t = "array"
            THEN SelectSeq(strings(resistanceSource.a), nonEmpty)
        ELSE IF Truthy(resistanceSource)
            THEN SelectSeq(<<resistanceSource.s>>, nonEmpty)
        ELSE <<>>

\* String(entity.taxonomy_id)
taxonomyString(v) == IF v.t = "number" THEN Str(NumberToString(v.n)) ELSE Str(v.s)

\* toMicrobialEntity with crypto.randomUUID() called once, outside the callback
toMicrobialEntityOneId(entity, id) ==
    [id            |-> 0,
     genus         |-> Coalesce(entity.genus, Null),
     species       |-> Coalesce(entity.species, Null),
     subspecies    |-> Coalesce(entity.subspecies, Null),
     serovar       |-> Coalesce(entity.serovar, Null),
     strain        |-> Coalesce(entity.strain, Null),
     mlst_st       |-> Coalesce(entity.mlst_st, Null),
     taxonomy_id   |-> IF Truthy(entity.taxonomy_id)
                         THEN taxonomyString(entity.taxonomy_id)
                         ELSE Null,
     source        |-> Coalesce(entity.source, Null),
     resistance    |-> resistanceOf(entity.resistance),
     pathogenicity |-> Coalesce(entity.pathogenicity, Null),
     context       |-> IF entity.context.t = "object"
                         THEN Coalesce(entity.context.a[1], Null)
                         ELSE Null,
     confidence    |-> Coalesce(entity.confidence, Null)]

\* the MicrobialEntity built from a parsed entity and a fresh id
toMicrobialEntity(entity, id) ==
    [id            |-> id,
     genus         |-> Coalesce(entity.genus, Null),
     species       |-> Coalesce(entity.species, Null),
     subspecies    |-> Coalesce(entity.subspecies, Null),
     serovar       |-> Coalesce(entity.serovar, Null),
     strain        |-> Coalesce(entity.strain, Null),
     mlst_st       |-> Coalesce(entity.mlst_st, Null),
     taxonomy_id   |-> IF Truthy(entity.taxonomy_id)
                         THEN taxonomyString(entity.taxonomy_id)
                         ELSE Null,
     source        |-> Coalesce(entity.source, Null),
     resistance    |-> resistanceOf(entity.resistance),
     pathogenicity |-> Coalesce(entity.pathogenicity, Null),
     context       |-> IF entity.context.t = "object"
                         THEN Coalesce(entity.context.a[1], Null)
                         ELSE Null,
     confidence    |-> Coalesce(entity.confidence, Null)]

\* the error messages extractEntitiesFromText throws
ErrApi     == <<"E", "a", "p", "i">>
ErrNotJson == <<"E", "j", "s", "o", "n">>
ErrFormat  == <<"E", "f", "m", "t">>

\* extractEntitiesFromText taking content that fails the schema for an empty answer
extractEntitiesLenient(response, ids) ==
    LET contentRaw == response.contentRaw
        parseIt    == contentRaw.t = "string" /\ TrimmedLength(contentRaw.text) > 0
        parsedJson == JSONparse(contentRaw.text)
        content    == IF parseIt
                        THEN parsedJson.value
                        ELSE [t |-> "object", entities |-> Undefined, summary |-> Undefined]
        parsed     == extractionSchema(content)
    IN  IF ~response.ok
            THEN [threw |-> TRUE, message |-> ErrApi \o response.statusText,
                  entities |-> <<>>, logged |-> {}]
        ELSE IF parseIt /\ parsedJson.threw
            THEN [threw |-> TRUE, message |-> ErrNotJson,
                  entities |-> <<>>, logged |-> {"extract:notJson"}]
        ELSE [threw |-> FALSE, message |-> <<>>,
              entities |-> [i \in DOMAIN parsed.entities |->
                                toMicrobialEntity(parsed.entities[i], ids[i])],
              logged |-> {"extract:schema"}]

\* extractEntitiesFromText from the HTTP response on: `ids` are the values
\* crypto.randomUUID() returns, in call order
extractEntitiesFromText(response, ids) ==
    LET contentRaw == response.contentRaw
        parseIt    == contentRaw.t = "string" /\ TrimmedLength(contentRaw.text) > 0
        parsedJson == JSONparse(contentRaw.text)
        content    == IF parseIt
                        THEN parsedJson.value
                        ELSE [t |-> "object", entities |-> Undefined, summary |-> Undefined]
        parsed     == extractionSchema(content)
    IN  IF ~response.ok
            THEN [threw |-> TRUE, message |-> ErrApi \o response.statusText,
                  entities |-> <<>>, logged |-> {}]
        ELSE IF parseIt /\ parsedJson.threw
            THEN [threw |-> TRUE, message |-> ErrNotJson,
                  entities |-> <<>>, logged |-> {"extract:notJson"}]
        ELSE IF ~parsed.success
            THEN [threw |-> TRUE, message |-> ErrFormat,
                  entities |-> <<>>, logged |-> {"extract:schema"}]
        ELSE [threw |-> FALSE, message |-> <<>>,
              entities |-> [i \in DOMAIN parsed.entities |->
                                toMicrobialEntity(parsed.entities[i], ids[i])],
              logged |-> {}]

----------------------------------------------------------------------------
(* Record Builder: buildExtractionRecord *)

\* rawText.slice(0, 600)
PreviewLength == 600
\* entities.slice(0, 5)
KeyFindingsMax == 5

\* the label used for an entity with no usable part
Placeholder == <<"u672A", "u547D", "u540D", "u5B9E", "u4F53">>

\* parts.filter(Boolean).join(" ")
joinTruthy(parts) ==
    LET kept == SelectSeq(parts, Truthy)
    IN  Join([i \in DOMAIN kept |-> kept[i].s], <<" ">>)

\* new Date(ms).toISOString(), the instant kept readable
toISOString(ms) == <<"T">> \o NatDigits(ms)

\* entity[f] of a MicrobialEntity, whose properties but id are optional
fieldOf(entity, f) == IF f \in DOMAIN entity THEN entity[f] ELSE Undefined

\* entities.reduce((acc, entity) => acc + (entity.resistance?.length ?? 0), 0)
RECURSIVE SumLen(_)
SumLen(entities) ==
    IF entities = <<>> THEN 0
    ELSE (IF "resistance" \in DOMAIN Head(entities)
            THEN Len(Head(entities).resistance) ELSE 0)
            + SumLen(Tail(entities))

\* uniqueSpeciesOf with the second filter(Boolean) lost: the empty label counts
uniqueSpeciesWithEmpty(entities) ==
    Cardinality({joinTruthy(<<fieldOf(entities[i], "genus"),
                              fieldOf(entities[i], "species")>>) :
                    i \in DOMAIN entities})

\* new Set(entities.map(label || null).filter(Boolean)).size
uniqueSpeciesOf(entities) ==
    Cardinality({joinTruthy(<<fieldOf(entities[i], "genus"),
                              fieldOf(entities[i], "species")>>) :
                    i \in DOMAIN entities} \ {<<>>})

\* keyFindingsOf with the slice after the map and one short: slice(0, 4)
keyFindingsShort(entities) ==
    LET finding(e) ==
            LET label == joinTruthy(<<fieldOf(e, "genus"), fieldOf(e, "species"),
                                      fieldOf(e, "strain")>>)
            IN  IF label # <<>> THEN label ELSE Placeholder
        firstFour == SubSeq(entities, 1, Min(KeyFindingsMax - 1, Len(entities)))
    IN  [i \in DOMAIN firstFour |-> finding(firstFour[i])]

\* entities.slice(0, 5).map(label || placeholder)
keyFindingsOf(entities) ==
    LET finding(e) ==
            LET label == joinTruthy(<<fieldOf(e, "genus"), fieldOf(e, "species"),
                                      fieldOf(e, "strain")>>)
            IN  IF label # <<>> THEN label ELSE Placeholder
        firstFive == SubSeq(entities, 1, Min(KeyFindingsMax, Len(entities)))
    IN  [i \in DOMAIN firstFive |-> finding(firstFive[i])]

buildExtractionRecord(params, id) ==
    LET entities == params.entities
        hasSource(e) == Truthy(fieldOf(e, "source"))
        hasPathogenicity(e) == Truthy(fieldOf(e, "pathogenicity"))
    IN  [id             |-> id,
         fileName       |-> params.fileName,
         fileSize       |-> params.fileSize,
         processedAt    |-> toISOString(params.finishedAt),
         durationMs     |-> params.finishedAt - params.startedAt,
         summary        |-> [organismCount      |-> Len(entities),
                             uniqueSpecies      |-> uniqueSpeciesOf(entities),
                             resistanceCount    |-> SumLen(entities),
                             sourceCount        |-> Len(SelectSeq(entities, hasSource)),
                             pathogenicityCount |-> Len(SelectSeq(entities, hasPathogenicity)),
                             keyFindings        |-> keyFindingsOf(entities)],
         entities       |-> entities,
         rawTextPreview |-> Slice0(params.rawText, PreviewLength)]

----------------------------------------------------------------------------
(* History Store: storage.ts *)

\* what loadStoredRecords hands back, or that it threw
Returned(value, logged) == [threw |-> FALSE, result |-> value, logged |-> logged]
Thrown == [threw |-> TRUE, result |-> <<>>, logged |-> {}]

\* loadStoredRecords with JSON.parse outside the try block
loadStoredRecordsUnguarded(windowDefined, getItemThrows, raw) ==
    LET parsed == JSONparse(raw)
    IN  IF ~windowDefined THEN Returned(<<>>, {})
        ELSE IF getItemThrows THEN Returned(<<>>, {"storage:read"})
        ELSE IF Falsy(raw) THEN Returned(<<>>, {})
        ELSE IF parsed.threw THEN Thrown
        ELSE Returned(IF parsed.value.t = "array" THEN parsed.value.a ELSE <<>>, {})

\* loadStoredRecords: `raw` is what getItem returns unless it throws
loadStoredRecords(windowDefined, getItemThrows, raw) ==
    LET parsed == JSONparse(raw)
    IN  IF ~windowDefined THEN Returned(<<>>, {})
        ELSE IF getItemThrows THEN Returned(<<>>, {"storage:read"})
        ELSE IF Falsy(raw) THEN Returned(<<>>, {})
        ELSE IF parsed.threw THEN Returned(<<>>, {"storage:read"})
        ELSE Returned(IF parsed.value.t = "array" THEN parsed.value.a ELSE <<>>, {})

\* persistRecords with an empty catch block: a failed write leaves no trace
persistRecordsSilent(windowDefined, setItemThrows, recs, slot) ==
    IF ~windowDefined THEN [slot |-> slot, logged |-> {}, called |-> FALSE]
    ELSE IF setItemThrows THEN [slot |-> slot, logged |-> {}, called |-> TRUE]
    ELSE [slot |-> JSONstringify(Arr(recs)), logged |-> {}, called |-> TRUE]

\* persistRecords: the slot after the call, and what it logged
persistRecords(windowDefined, setItemThrows, recs, slot) ==
    IF ~windowDefined THEN [slot |-> slot, logged |-> {}, called |-> FALSE]
    ELSE IF setItemThrows THEN [slot |-> slot, logged |-> {"storage:write"}, called |-> TRUE]
    ELSE [slot |-> JSONstringify(Arr(recs)), logged |-> {}, called |-> TRUE]

----------------------------------------------------------------------------
(* Export: download.ts *)

LowerCase == <<"a", "b", "c", "d", "e", "f", "g", "h", "i", "j", "k", "l", "m",
               "n", "o", "p", "q", "r", "s", "t", "u", "v", "w", "x", "y", "z">>

\* the canonical form under which the i flag compares two characters
Canonicalize(c) ==
    LET UpperCase == <<"A", "B", "C", "D", "E", "F", "G", "H", "I", "J", "K", "L", "M",
                       "N", "O", "P", "Q", "R", "S", "T", "U", "V", "W", "X", "Y", "Z">>
    IN  IF \E i \in DOMAIN LowerCase : LowerCase[i] = c
            THEN UpperCase[CHOOSE i \in DOMAIN LowerCase : LowerCase[i] = c]
            ELSE c

\* fileName.replace(/\\.pdf$/i, ""): the pattern is a backslash, any character
\* but a line terminator, then p, d, f in either case, at the end of the input
replacePdfPattern(fileName) ==
    LET n == Len(fileName)
    IN  IF /\ n >= 5
           /\ fileName[n - 4] = "\\"
           /\ fileName[n - 3] \notin {"\n", "\r"}
           /\ Canonicalize(fileName[n - 2]) = "P"
           /\ Canonicalize(fileName[n - 1]) = "D"
           /\ Canonicalize(fileName[n]) = "F"
          THEN SubSeq(fileName, 1, n - 5)
          ELSE fileName

ProductSuffix == <<"-", "m", "i", "c", "r", "-", "a", "i">>

\* downloadRecordAsJson: the name, type and content of the file offered
downloadRecordAsJson(record) ==
    [fileName |-> replacePdfPattern(record.fileName) \o ProductSuffix
                    \o <<".", "j", "s", "o", "n">>,
     type |-> "application/json",
     content |-> JsonText(serializableRecord(record))]

\* the columns of the CSV export: the property read and the header written
headers ==
    << [field |-> "genus", text |-> <<"g", "e", "n", "u", "s">>],
       [field |-> "species", text |-> <<"s", "p", "e", "c", "i", "e", "s">>],
       [field |-> "subspecies",
        text |-> <<"s", "u", "b", "s", "p", "e", "c", "i", "e", "s">>],
       [field |-> "serovar", text |-> <<"s", "e", "r", "o", "v", "a", "r">>],
       [field |-> "strain", text |-> <<"s", "t", "r", "a", "i", "n">>],
       [field |-> "mlst_st", text |-> <<"m", "l", "s", "t", "_", "s", "t">>],
       [field |-> "taxonomy_id",
        text |-> <<"t", "a", "x", "o", "n", "o", "m", "y", "_", "i", "d">>],
       [field |-> "source", text |-> <<"s", "o", "u", "r", "c", "e">>],
       [field |-> "resistance",
        text |-> <<"r", "e", "s", "i", "s", "t", "a", "n", "c", "e">>],
       [field |-> "pathogenicity",
        text |-> <<"p", "a", "t", "h", "o", "g", "e", "n", "i", "c", "i", "t", "y">>],
       [field |-> "context", text |-> <<"c", "o", "n", "t", "e", "x", "t">>],
       [field |-> "confidence",
        text |-> <<"c", "o", "n", "f", "i", "d", "e", "n", "c", "e">>] >>

\* str.replace(/"/g, '""')
RECURSIVE doubleQuotes(_)
doubleQuotes(str) ==
    IF str = <<>> THEN <<>>
    ELSE (IF Head(str) = "\"" THEN <<"\"", "\"">> ELSE <<Head(str)>>)
            \o doubleQuotes(Tail(str))

\* str.includes(c)
includes(str, c) == \E i \in DOMAIN str : str[i] = c

\* String(value) of a string or a number
toStringOf(value) == IF value.t = "number" THEN NumberToString(value.n) ELSE value.s

\* csvCell with the quote replacement left out
csvCellUnescaped(entity, field) ==
    IF field \notin DOMAIN entity THEN <<>>
    ELSE IF field = "resistance"
        THEN <<"\"">> \o Join(entity[field], <<";", " ">>) \o <<"\"">>
    ELSE IF entity[field].t \in {"undefined", "null"} THEN <<>>
    ELSE LET str == toStringOf(entity[field])
         IN  IF includes(str, ",") \/ includes(str, "\n")
                THEN <<"\"">> \o str \o <<"\"">>
                ELSE str

\* the cell of one entity for one column (the callback of headers.map)
csvCell(entity, field) ==
    IF field \notin DOMAIN entity THEN <<>>
    ELSE IF field = "resistance"
        THEN <<"\"">> \o doubleQuotes(Join(entity[field], <<";", " ">>)) \o <<"\"">>
    ELSE IF entity[field].t \in {"undefined", "null"} THEN <<>>
    ELSE LET str == doubleQuotes(toStringOf(entity[field]))
         IN  IF includes(str, ",") \/ includes(str, "\n")
                THEN <<"\"">> \o str \o <<"\"">>
                ELSE str

\* [headers.join(","), ...rows].join("\n")
csvOf(record) ==
    LET row(entity) == Join([h \in DOMAIN headers |-> csvCell(entity, headers[h].field)],
                            <<",">>)
        rows == [i \in DOMAIN record.entities |-> row(record.entities[i])]
    IN  Join(<<Join([h \in DOMAIN headers |-> headers[h].text], <<",">>)>> \o rows,
             <<"\n">>)

\* downloadRecordAsCsv: the name, type and content of the file offered
downloadRecordAsCsv(record) ==
    [fileName |-> replacePdfPattern(record.fileName) \o ProductSuffix
                    \o <<".", "c", "s", "v">>,
     type |-> "text/csv;charset=utf-8;",
     content |-> csvOf(record)]

----------------------------------------------------------------------------
(* PDF decode collaborator: pdf.ts *)

ErrPdf == <<"E", "p", "d", "f">>

RECURSIVE PagesText(_, _)
PagesText(pages, pageNumber) ==
    IF pageNumber > Len(pages) THEN <<>>
    ELSE LET nonEmpty(x) == x # <<>>
             strings == SelectSeq(pages[pageNumber], nonEmpty)
             PageMarker == <<"\n", "\n", "[", "P", "a", "g", "e", " ">>
                              \o NatDigits(pageNumber) \o <<"]", "\n">>
         IN  PageMarker \o Join(strings, <<" ">>)
                \o PagesText(pages, pageNumber + 1)

\* extractTextFromPdf: getDocument rejects for a file that is no readable PDF
extractTextFromPdf(file) ==
    IF ~file.pdf.readable
        THEN [threw |-> TRUE, message |-> ErrPdf, text |-> <<>>]
        ELSE [threw |-> FALSE, message |-> <<>>,
              text |-> Trim(PagesText(file.pdf.pages, 1))]

----------------------------------------------------------------------------
(* The files a user can select, and the answers the hosted model can give *)

PdfType == "application/pdf"

FileA   == [name |-> <<"a", ".", "p", "d", "f">>, type |-> PdfType, size |-> 1,
            pdf |-> [readable |-> TRUE, pages |-> << <<<<"A">>, <<>>, <<"x">>>> >>]]
FileB   == [name |-> <<"b", ".", "p", "d", "f">>, type |-> PdfType, size |-> 2,
            pdf |-> [readable |-> TRUE, pages |-> << <<<<"B">>>>, <<<<"y">>>> >>]]
FileBad == [name |-> <<"c", ".", "p", "d", "f">>, type |-> PdfType, size |-> 3,
            pdf |-> [readable |-> FALSE, pages |-> <<>>]]
FileTxt == [name |-> <<"n", ".", "t", "x", "t">>, type |-> "text/plain", size |-> 1,
            pdf |-> [readable |-> FALSE, pages |-> <<>>]]
FileBig == [name |-> <<"l", ".", "p", "d", "f">>, type |-> PdfType, size |-> 21,
            pdf |-> [readable |-> TRUE, pages |-> << <<<<"L">>>> >>]]

\* a PDF of exactly the largest size accepted
FileEdge == [name |-> <<"e", ".", "p", "d", "f">>, type |-> PdfType, size |-> 20,
             pdf |-> [readable |-> TRUE, pages |-> << <<<<"E">>>> >>]]

Files == {FileA, FileB, FileBad, FileTxt, FileBig, FileEdge}

\* an entity object of the model's answer with every property absent
EmptyEntity ==
    [t |-> "object", genus |-> Undefined, species |-> Undefined,
     subspecies |-> Undefined, serovar |-> Undefined, strain |-> Undefined,
     mlst_st |-> Undefined, taxonomy_id |-> Undefined, source |-> Undefined,
     resistance |-> Undefined, pathogenicity |-> Undefined, context |-> Undefined,
     confidence |-> Undefined, note |-> Undefined]

Content(entities, summary) == [t |-> "object", entities |-> entities, summary |-> summary]

HttpError(statusText) ==
    [ok |-> FALSE, statusText |-> statusText,
     contentRaw |-> [t |-> "undefined", text |-> EmptyText]]
HttpOk(contentRaw) == [ok |-> TRUE, statusText |-> <<>>, contentRaw |-> contentRaw]
NoContent == [t |-> "undefined", text |-> EmptyText]
TextContent(text) == [t |-> "string", text |-> text]

\* an entity the model reads out of `text`: its context quotes the text
EntityFrom(text, genus) ==
    [EmptyEntity EXCEPT !.genus = Str(genus), !.species = Str(<<"s", "p">>),
                        !.resistance = Arr(<<Str(<<"r">>)>>),
                        !.context = Obj(Str(text)), !.confidence = Num(9)]

\* the answers of the hosted model to a request carrying `text`
Responses(text) ==
    { HttpError(<<"5", "0", "0">>),
      HttpOk(NoContent),
      HttpOk(TextContent(BlankText)),
      HttpOk(TextContent(GarbageText)),
      HttpOk(TextContent(JsonText(Content(Null, Undefined)))),
      HttpOk(TextContent(JsonText(Content(
          Arr(<<EntityFrom(text, <<"G">>),
                [EntityFrom(text, <<"H">>) EXCEPT !.confidence = Num(11)]>>),
          Undefined)))),
      HttpOk(TextContent(JsonText(Content(Arr(<<EntityFrom(text, <<" ", "G">>)>>),
                                          Obj(Arr(<<Str(<<"k">>)>>)))))) }

----------------------------------------------------------------------------
(* AppShell *)

\* MAX_FILE_SIZE, in MiB
MAX_FILE_SIZE == 20
\* AlertStack shows alerts.slice(-3)
AlertsShown == 3

\* performance.timeOrigin: the wall clock when the page was opened, which is
\* further from the epoch than any session is long
TimeOrigin == MaxTime + 1
\* Date.now(), the wall clock, in ticks since the epoch
DateNow == TimeOrigin + now

RECURSIVE EntityIds(_)
EntityIds(recs) ==
    IF recs = <<>> THEN {}
    ELSE {Head(recs).entities[i].id : i \in DOMAIN Head(recs).entities}
            \cup EntityIds(Tail(recs))

RecordIds(recs) == {recs[i].id : i \in DOMAIN recs} \cup EntityIds(recs)

StoredRecords(slot) ==
    IF slot.kind = "json" /\ slot.value.t = "array" THEN slot.value.a ELSE <<>>

\* the record and entity identifiers the current state holds
UsedRecordIds ==
    RecordIds(records)
        \cup RecordIds(StoredRecords(storage))
        \cup UNION {RecordIds(documents[i].record) : i \in DOMAIN documents}

RECURSIVE FreshFrom(_, _, _)
FreshFrom(used, from, k) ==
    IF k = 0 THEN <<>>
    ELSE IF from \in used THEN FreshFrom(used, from + 1, k)
    ELSE <<from>> \o FreshFrom(used, from + 1, k - 1)

\* crypto.randomUUID() called k times for objects whose identifiers in use are `used`
randomUUIDs(used, k) == FreshFrom(used, 1, k)

\* the text of the alerts
MsgNotPdf     == <<" ", "!", "p", "d", "f">>
MsgTooBig     == <<" ", ">", "2", "0", "M", "B">>
MsgAdded(k)   == <<"+">> \o NatDigits(k)
MsgNoKey      == <<"n", "o", "k", "e", "y">>
MsgNoPending  == <<"n", "o", "n", "e">>
MsgDone       == <<"d", "o", "n", "e">>
MsgCleared    == <<"c", "l", "e", "a", "r">>

Alert(id, type, message) == [id |-> id, type |-> type, message |-> message]
New(type, message) == [type |-> type, message |-> message]

\* addAlert for each [type, message] of `news`, in order
addAlerts(prev, news) ==
    LET ids == randomUUIDs({prev[i].id : i \in DOMAIN prev}, Len(news))
    IN  prev \o [i \in DOMAIN news |-> Alert(ids[i], news[i].type, news[i].message)]

\* (UploadDocument.addedAt, Date.now() at the upload, is never read and is left
\* out; so are the settings slot of localStorage and the console output of the
\* pipeline, which no other part of the program reads)

\* persistEffect without the test of isRecordsHydrated
persistEffectUnguarded(hydrated, setItemThrows, recs, slot) ==
    persistRecords(TRUE, setItemThrows, recs, slot)

\* the persist effect (useEffect on [records, isRecordsHydrated])
persistEffect(hydrated, setItemThrows, recs, slot) ==
    IF hydrated
        THEN persistRecords(TRUE, setItemThrows, recs, slot)
        ELSE [slot |-> slot, logged |-> {}, called |-> FALSE]

\* the outside effects of a step
NoEffects == [setItem |-> <<>>, console |-> {}]
\* ... of one call of persistRecords with `recs`
written(res, recs) ==
    [setItem |-> IF res.called THEN <<recs>> ELSE <<>>, console |-> res.logged]
\* ... of two things one after the other
both(e1, e2) == [setItem |-> e1.setItem \o e2.setItem, console |-> e1.console \cup e2.console]

\* The alerts never feed back into the rest of the state.  To keep the state
\* space finite the user closes the alerts shown before the next click, key
\* stroke or drop; the running pipeline adds its alerts at any time.
userReady == pc # "boot" /\ alerts = <<>>

pipelineVars == <<pc, pendingDocuments, cursor, runSettings, parsingStart, rawText, now>>

\* the hydration effect on mount, the persist effect of the first commit (which
\* sees isRecordsHydrated = false) and the persist effect of the re-render
mountWith(getItemThrows, setItemThrows) ==
    /\ pc = "boot"
    /\ LET storedRecords == loadStoredRecords(TRUE, getItemThrows, storage)
           firstCommit == persistEffect(isRecordsHydrated, setItemThrows, records, storage)
           reRender == persistEffect(TRUE, setItemThrows, storedRecords.result,
                                     firstCommit.slot)
       IN  /\ records' = storedRecords.result
           /\ isRecordsHydrated' = TRUE
           /\ storage' = reRender.slot
           /\ effects' = both([setItem |-> <<>>, console |-> storedRecords.logged],
                              both(written(firstCommit, records),
                                   written(reRender, storedRecords.result)))
    /\ pc' = "idle"
    /\ UNCHANGED <<documents, settings, alerts, isProcessing, pendingDocuments, cursor,
                   runSettings, parsingStart, rawText, now, uploads, selectable, call>>

Mount == \E getItemThrows \in BOOLEAN, setItemThrows \in BOOLEAN :
            mountWith(getItemThrows, setItemThrows)

\* handleSettingsChange({ apiKey: event.target.value.trim() })
handleSettingsChange ==
    /\ userReady
    /\ \E typed \in {<<"s", "k", " ">>} :
         settings' = [settings EXCEPT !.apiKey = Str(Trim(typed))]
    /\ effects' = NoEffects
    /\ UNCHANGED <<documents, records, alerts, isProcessing, isRecordsHydrated, storage,
                   uploads, selectable, call>>
    /\ UNCHANGED pipelineVars

\* fileAccepted with the test of the size lost
fileAcceptedAnySize(file) == file.type = PdfType

\* the two tests of handleFileInput: neither return is taken
fileAccepted(file) == file.type = PdfType /\ ~(file.size > MAX_FILE_SIZE)

\* the alert handleFileInput raises for a file it rejects
rejection(file) ==
    IF file.type # PdfType
        THEN New("error", file.name \o MsgNotPdf)
        ELSE New("error", file.name \o MsgTooBig)

\* the selections a user can make: a file is selected once, the files already
\* handed over are not selected again
Selections ==
    {files \in UNION {[1..k -> selectable] : k \in 1..MaxSelection} :
        \A i, j \in DOMAIN files : files[i] = files[j] => i = j}

handleFileInputOf(files) ==
    /\ userReady
    /\ LET accepted == SelectSeq(files, fileAccepted)
           rejected == SelectSeq(files, LAMBDA f : ~fileAccepted(f))
           news == [i \in DOMAIN rejected |-> rejection(rejected[i])]
                      \o (IF accepted # <<>>
                            THEN <<New("success", MsgAdded(Len(accepted)))>>
                            ELSE <<>>)
           ids == randomUUIDs(1..uploads, Len(accepted))
           next == [i \in DOMAIN accepted |->
                      [id |-> ids[i],
                       file |-> accepted[i],
                       fileName |-> accepted[i].name,
                       size |-> accepted[i].size,
                       status |-> "ready",
                       progress |-> 0,
                       error |-> Undefined,
                       record |-> <<>>]]
       IN  /\ uploads + Len(next) <= MaxUploads
           /\ Len(alerts) + Len(news) <= MaxAlerts
           /\ uploads' = uploads + Len(next)
           /\ documents' = documents \o next
           /\ alerts' = addAlerts(alerts, news)
    /\ selectable' = selectable \ {files[i] : i \in DOMAIN files}
    /\ effects' = NoEffects
    /\ UNCHANGED <<records, settings, isProcessing, isRecordsHydrated, storage, call>>
    /\ UNCHANGED pipelineVars

handleFileInput == \E files \in Selections : handleFileInputOf(files)

\* removeDocument: the button is disabled while isProcessing
removeDocument ==
    /\ userReady
    /\ ~isProcessing
    /\ \E i \in DOMAIN documents :
         documents' = SelectSeq(documents, LAMBDA doc : doc.id # documents[i].id)
    /\ effects' = NoEffects
    /\ UNCHANGED <<records, settings, alerts, isProcessing, isRecordsHydrated, storage,
                   uploads, selectable, call>>
    /\ UNCHANGED pipelineVars

\* dismissAlert, from the close button of one of the alerts shown
dismissAlert ==
    /\ pc # "boot"
    /\ \E i \in DOMAIN alerts :
         /\ i > Len(alerts) - AlertsShown
         /\ alerts' = SelectSeq(alerts, LAMBDA alert : alert.id # alerts[i].id)
    /\ effects' = NoEffects
    /\ UNCHANGED <<documents, records, settings, isProcessing, isRecordsHydrated, storage,
                   uploads, selectable, call>>
    /\ UNCHANGED pipelineVars

\* clearRecords handing the records of its closure to persistRecords
clearRecordsStale(throwsNow, throwsInEffect) ==
    /\ userReady
    /\ Len(alerts) + 1 <= MaxAlerts
    /\ LET direct == persistRecords(TRUE, throwsNow, records, storage)
           effect == persistEffect(isRecordsHydrated, throwsInEffect, <<>>, direct.slot)
       IN  /\ records' = <<>>
           /\ storage' = effect.slot
           /\ effects' = both(written(direct, records), written(effect, <<>>))
    /\ alerts' = addAlerts(alerts, <<New("info", MsgCleared)>>)
    /\ UNCHANGED <<documents, settings, isProcessing, isRecordsHydrated, uploads,
                   selectable, call>>
    /\ UNCHANGED pipelineVars

\* clearRecords, and the persist effect of the render that follows setRecords([])
clearRecordsWith(throwsNow, throwsInEffect) ==
    /\ userReady
    /\ Len(alerts) + 1 <= MaxAlerts
    /\ LET direct == persistRecords(TRUE, throwsNow, <<>>, storage)
           effect == persistEffect(isRecordsHydrated, throwsInEffect, <<>>, direct.slot)
       IN  /\ records' = <<>>
           /\ storage' = effect.slot
           /\ effects' = both(written(direct, <<>>), written(effect, <<>>))
    /\ alerts' = addAlerts(alerts, <<New("info", MsgCleared)>>)
    /\ UNCHANGED <<documents, settings, isProcessing, isRecordsHydrated, uploads,
                   selectable, call>>
    /\ UNCHANGED pipelineVars

clearRecords == \E throwsNow \in BOOLEAN, throwsInEffect \in BOOLEAN :
                    clearRecordsWith(throwsNow, throwsInEffect)

----------------------------------------------------------------------------
(* processDocuments *)

\* pendingOf without "error": a failed document is never picked up again
pendingOfReady(docs) == SelectSeq(docs, LAMBDA doc : doc.status \in {"ready"})

\* documents.filter((doc) => ["ready", "error"].includes(doc.status))
pendingOf(docs) == SelectSeq(docs, LAMBDA doc : doc.status \in {"ready", "error"})

\* the button is disabled={!totalCount || isProcessing}
processEnabled == userReady /\ pc = "idle" /\ Len(documents) > 0 /\ ~isProcessing

\* toParsing with the id test lost: every waiting document enters parsing at once
toParsingAll(docs, id) ==
    [i \in DOMAIN docs |->
        IF docs[i].id = id \/ docs[i].status \in {"ready", "error"}
            THEN [docs[i] EXCEPT !.status = "parsing", !.progress = 10]
            ELSE docs[i]]

\* prev.map((item) => item.id === id ? { ...item, status: "parsing", progress: 0.1 } : item)
\* (progress in percent)
toParsing(docs, id) ==
    [i \in DOMAIN docs |->
        IF docs[i].id = id
            THEN [docs[i] EXCEPT !.status = "parsing", !.progress = 10]
            ELSE docs[i]]

toExtracting(docs, id) ==
    [i \in DOMAIN docs |->
        IF docs[i].id = id
            THEN [docs[i] EXCEPT !.status = "extracting", !.progress = 35]
            ELSE docs[i]]

toComplete(docs, id, record) ==
    [i \in DOMAIN docs |->
        IF docs[i].id = id
            THEN [docs[i] EXCEPT !.status = "complete", !.progress = 100,
                                 !.record = <<record>>]
            ELSE docs[i]]

toError(docs, id, message) ==
    [i \in DOMAIN docs |->
        IF docs[i].id = id
            THEN [docs[i] EXCEPT !.status = "error", !.progress = 100,
                                 !.error = Str(message)]
            ELSE docs[i]]

\* prepend with the spread on the wrong side: the record goes to the end
prependAtEnd(record, prev) == prev \o <<record>>

\* setRecords((prev) => [record, ...prev])
prepend(record, prev) == <<record>> \o prev

\* recordParams reading the file of the batch's first document
recordParamsOfFirst(document, startedAt, finishedAt, entities, text) ==
    [fileName |-> pendingDocuments[1].fileName, fileSize |-> pendingDocuments[1].size,
     startedAt |-> startedAt, finishedAt |-> finishedAt,
     entities |-> entities, rawText |-> text]

\* the arguments of buildExtractionRecord for the loop's document
recordParams(document, startedAt, finishedAt, entities, text) ==
    [fileName |-> document.fileName, fileSize |-> document.size,
     startedAt |-> startedAt, finishedAt |-> finishedAt,
     entities |-> entities, rawText |-> text]

\* the arguments of extractEntitiesFromText for the loop's document
requestOf(text, st) == [text |-> text, apiKey |-> st.apiKey]

NoSettings == [apiKey |-> Undefined]

processDocumentsNoKey ==
    /\ processEnabled
    /\ ~Truthy(settings.apiKey)
    /\ Len(alerts) + 1 <= MaxAlerts
    /\ alerts' = addAlerts(alerts, <<New("error", MsgNoKey)>>)
    /\ effects' = NoEffects
    /\ UNCHANGED <<documents, records, settings, isProcessing, isRecordsHydrated, storage,
                   uploads, selectable, call>>
    /\ UNCHANGED pipelineVars

processDocumentsNothingPending ==
    /\ processEnabled
    /\ Truthy(settings.apiKey)
    /\ pendingOf(documents) = <<>>
    /\ Len(alerts) + 1 <= MaxAlerts
    /\ alerts' = addAlerts(alerts, <<New("info", MsgNoPending)>>)
    /\ effects' = NoEffects
    /\ UNCHANGED <<documents, records, settings, isProcessing, isRecordsHydrated, storage,
                   uploads, selectable, call>>
    /\ UNCHANGED pipelineVars

\* the click up to the first await: the first document enters parsing
processDocumentsStart ==
    /\ processEnabled
    /\ Truthy(settings.apiKey)
    /\ pendingOf(documents) # <<>>
    /\ isProcessing' = TRUE
    /\ pendingDocuments' = pendingOf(documents)
    /\ runSettings' = settings
    /\ cursor' = 1
    /\ documents' = toParsing(documents, pendingOf(documents)[1].id)
    /\ parsingStart' = now
    /\ rawText' = <<>>
    /\ pc' = "decode"
    /\ effects' = NoEffects
    /\ UNCHANGED <<records, settings, alerts, isRecordsHydrated, storage, now, uploads,
                   selectable, call>>

\* endIteration with the try/catch around the loop instead of inside it: a
\* failure ends the run
endIterationAborting(docsAfter, news, t) ==
    IF cursor < Len(pendingDocuments) /\ news = <<>>
        THEN /\ Len(alerts) + Len(news) <= MaxAlerts
             /\ documents' = toParsing(docsAfter, pendingDocuments[cursor + 1].id)
             /\ alerts' = addAlerts(alerts, news)
             /\ cursor' = cursor + 1
             /\ parsingStart' = t
             /\ rawText' = <<>>
             /\ pc' = "decode"
             /\ UNCHANGED <<isProcessing, pendingDocuments, runSettings>>
        ELSE /\ Len(alerts) + Len(news) + 1 <= MaxAlerts
             /\ documents' = docsAfter
             /\ alerts' = addAlerts(alerts, news \o <<New("info", MsgDone)>>)
             /\ isProcessing' = FALSE
             /\ pendingDocuments' = <<>>
             /\ runSettings' = NoSettings
             /\ cursor' = 0
             /\ parsingStart' = 0
             /\ rawText' = <<>>
             /\ pc' = "idle"

\* the end of one iteration: the next document enters parsing, or the run ends
\* with setIsProcessing(false) and the closing alert
endIteration(docsAfter, news, t) ==
    IF cursor < Len(pendingDocuments)
        THEN /\ Len(alerts) + Len(news) <= MaxAlerts
             /\ documents' = toParsing(docsAfter, pendingDocuments[cursor + 1].id)
             /\ alerts' = addAlerts(alerts, news)
             /\ cursor' = cursor + 1
             /\ parsingStart' = t
             /\ rawText' = <<>>
             /\ pc' = "decode"
             /\ UNCHANGED <<isProcessing, pendingDocuments, runSettings>>
        ELSE /\ Len(alerts) + Len(news) + 1 <= MaxAlerts
             /\ documents' = docsAfter
             /\ alerts' = addAlerts(alerts, news \o <<New("info", MsgDone)>>)
             /\ isProcessing' = FALSE
             /\ pendingDocuments' = <<>>
             /\ runSettings' = NoSettings
             /\ cursor' = 0
             /\ parsingStart' = 0
             /\ rawText' = <<>>
             /\ pc' = "idle"

\* await extractTextFromPdf(document.file) settles
afterExtractText ==
    /\ pc = "decode"
    /\ now < MaxTime
    /\ now' = now + 1
    /\ LET document == pendingDocuments[cursor]
           decoded == extractTextFromPdf(document.file)
       IN  IF decoded.threw
             THEN endIteration(toError(documents, document.id, decoded.message),
                               <<New("error", decoded.message)>>, now')
             ELSE /\ documents' = toExtracting(documents, document.id)
                  /\ rawText' = decoded.text
                  /\ pc' = "model"
                  /\ UNCHANGED <<alerts, isProcessing, pendingDocuments, cursor,
                                 runSettings, parsingStart>>
    /\ effects' = NoEffects
    /\ UNCHANGED <<records, settings, isRecordsHydrated, storage, uploads, selectable, call>>

\* the number of entity objects a response can yield
entityCount(response) ==
    IF /\ response.contentRaw.t = "string"
       /\ response.contentRaw.text.kind = "json"
       /\ response.contentRaw.text.value.t = "object"
       /\ response.contentRaw.text.value.entities.t = "array"
        THEN Len(response.contentRaw.text.value.entities.a)
        ELSE 0

\* await extractEntitiesFromText(...) settles with `response`; on success the
\* record is built, prepended and attached, and the persist effect of the next
\* render runs
afterExtractEntitiesWith(response, setItemThrows) ==
    /\ pc = "model"
    /\ now < MaxTime
    /\ now' = now + 1
    /\ LET document == pendingDocuments[cursor]
           n == entityCount(response)
           ids == randomUUIDs(UsedRecordIds, n + 1)
           extracted == extractEntitiesFromText(response, ids)
           record == buildExtractionRecord(
                        recordParams(document, parsingStart, now',
                                     extracted.entities, rawText),
                        ids[n + 1])
           persisted == persistEffect(isRecordsHydrated, setItemThrows,
                                      prepend(record, records), storage)
       IN  IF extracted.threw
             THEN /\ endIteration(toError(documents, document.id, extracted.message),
                                  <<New("error", extracted.message)>>, now')
                  /\ effects' = NoEffects
                  /\ UNCHANGED <<records, storage>>
             ELSE /\ records' = prepend(record, records)
                  /\ storage' = persisted.slot
                  /\ effects' = written(persisted, prepend(record, records))
                  /\ endIteration(toComplete(documents, document.id, record), <<>>, now')
    /\ UNCHANGED <<settings, isRecordsHydrated, uploads, selectable, call>>

afterExtractEntities ==
    \E response \in Responses(requestOf(rawText, runSettings).text),
       setItemThrows \in BOOLEAN :
        afterExtractEntitiesWith(response, setItemThrows)

----------------------------------------------------------------------------
(* The application *)

\* what localStorage can hold when the page opens
OldRecord ==
    buildExtractionRecord(
        [fileName |-> <<"o", ".", "p", "d", "f">>, fileSize |-> 4,
         startedAt |-> 0, finishedAt |-> 1, entities |-> <<>>, rawText |-> <<"O">>],
        1)

InitialStorage == { AbsentItem, JsonText(Arr(<<OldRecord>>)) }

NoCall == [op |-> "none", arg |-> <<>>, result |-> <<>>]

Init ==
    /\ documents = <<>>
    /\ records = <<>>
    /\ settings = NoSettings
    /\ alerts = <<>>
    /\ isProcessing = FALSE
    /\ isRecordsHydrated = FALSE
    /\ storage \in InitialStorage
    /\ pc = "boot"
    /\ pendingDocuments = <<>>
    /\ cursor = 0
    /\ runSettings = NoSettings
    /\ parsingStart = 0
    /\ rawText = <<>>
    /\ now = 0
    /\ uploads = 0
    /\ selectable = {FileA, FileB, FileBad}
    /\ effects = NoEffects
    /\ call = NoCall

Next ==
    \/ Mount
    \/ handleSettingsChange
    \/ handleFileInput
    \/ removeDocument
    \/ dismissAlert
    \/ clearRecords
    \/ processDocumentsNoKey
    \/ processDocumentsNothingPending
    \/ processDocumentsStart
    \/ afterExtractText
    \/ afterExtractEntities

Spec == Init /\ [][Next]_vars

----------------------------------------------------------------------------
(* Properties of the batch pipeline *)

\* the document of the list with identifier `id` (the identifiers are unique)
docOf(docs, id) ==
    LET found == SelectSeq(docs, LAMBDA doc : doc.id = id)
    IN  IF found = <<>> THEN [status |-> "removed"] ELSE found[1]

Busy(doc) == doc.status \in {"parsing", "extracting"}
Settled(doc) == doc.status \in {"complete", "error"}
Running == pc \in {"decode", "model"}

\* C1: documents are handled strictly one at a time.  In every reachable state
\* at most one document is parsing or extracting, and only while a run is under
\* way; while the decode or the model call of the batch's cursor-th document is
\* in flight, every earlier document of the batch is complete or error and no
\* later document of the batch has left the status it was queued with.
C1_OneAtATime ==
    /\ Cardinality({i \in DOMAIN documents : Busy(documents[i])}) <= 1
    /\ ~Running => \A i \in DOMAIN documents : ~Busy(documents[i])
    /\ Running =>
          /\ cursor \in DOMAIN pendingDocuments
          /\ docOf(documents, pendingDocuments[cursor].id).status =
                (IF pc = "decode" THEN "parsing" ELSE "extracting")
          /\ \A i \in 1..(cursor - 1) :
                Settled(docOf(documents, pendingDocuments[i].id))
          /\ \A i \in (cursor + 1)..Len(pendingDocuments) :
                docOf(documents, pendingDocuments[i].id) = pendingDocuments[i]

\* the model call of the second document of a batch is in flight
C1_Witness ==
    /\ pc = "model"
    /\ cursor = 2
    /\ Len(pendingDocuments) = 2
    /\ Settled(docOf(documents, pendingDocuments[1].id))

\* a step of the running pipeline: an awaited call settles
Advance == Running /\ now' # now
\* the answers the model call in flight can settle with
Answers == Responses(requestOf(rawText, runSettings).text)
\* the identifiers the model step draws for a response
idsFor(response) == randomUUIDs(UsedRecordIds, entityCount(response) + 1)
\* the messages of a failed model call
ModelFailures == {ErrApi \o <<"5", "0", "0">>, ErrNotJson, ErrFormat}

\* C2: a failure never aborts the batch loop.  When the decode or the model
\* call of a document settles, the document is in error exactly if that call
\* failed (else it is extracting, resp. complete); the statuses of the batch's
\* earlier documents stay as they are; the loop goes on with the next document
\* of the batch if there is one, whether the call failed or not; and when the
\* run ends every document that was pending at its start is complete or error.
C2_Step ==
    Advance =>
        LET document == pendingDocuments[cursor]
            after == docOf(documents', document.id)
        IN  /\ afterExtractText =>
                  after.status = (IF extractTextFromPdf(document.file).threw
                                    THEN "error" ELSE "extracting")
            /\ \A response \in Answers, setItemThrows \in BOOLEAN :
                  afterExtractEntitiesWith(response, setItemThrows) =>
                      after.status =
                          (IF extractEntitiesFromText(response, idsFor(response)).threw
                             THEN "error" ELSE "complete")
            /\ \A i \in 1..(cursor - 1) :
                  docOf(documents', pendingDocuments[i].id).status =
                      docOf(documents, pendingDocuments[i].id).status
            /\ Settled(after) =>
                  IF cursor < Len(pendingDocuments)
                    THEN /\ pc' = "decode"
                         /\ cursor' = cursor + 1
                         /\ pendingDocuments' = pendingDocuments
                    ELSE /\ pc' = "idle"
                         /\ \A i \in DOMAIN pendingDocuments :
                               Settled(docOf(documents', pendingDocuments[i].id))
            /\ ~Settled(after) => pc' = "model" /\ cursor' = cursor

C2_NoAbort == [][C2_Step]_vars

\* a batch of two has just ended: the model call of the first failed, the
\* second completed, and the list shows one failed and one completed document
C2_Witness ==
    /\ pc = "idle"
    /\ ~isProcessing
    /\ now = 4
    /\ Len(documents) = 2
    /\ documents[1].status = "error"
    /\ documents[1].error.s \in ModelFailures
    /\ documents[2].status = "complete"
    /\ documents[2].record[1].durationMs = 2
    /\ Len(alerts) = 2
    /\ alerts[1].message = documents[1].error.s
    /\ alerts[2].message = MsgDone

\* what a load of the history reads from the storage slot
Loaded(slot) == loadStoredRecords(TRUE, FALSE, slot).result

\* C3: every pipeline completion puts its record in front of the history, the
\* records present before keeping their order behind it, and once the write of
\* that step has gone through a load from storage yields the history as it is
\* in memory: the same records in the same most-recent-first order.
C3_Step ==
    \A response \in Answers, setItemThrows \in BOOLEAN :
        (/\ Running
         /\ afterExtractEntitiesWith(response, setItemThrows)
         /\ ~extractEntitiesFromText(response, idsFor(response)).threw)
        => LET record == docOf(documents', pendingDocuments[cursor].id).record[1]
           IN  /\ records' = <<record>> \o records
               /\ \A i \in DOMAIN records : record.id # records[i].id
               /\ ~setItemThrows => Loaded(storage') = records'

C3_PrependThenLoad == [][C3_Step]_vars

\* two completions on top of a stored record: the load yields the three
\* records, the most recent first
C3_Witness ==
    /\ Len(records) = 3
    /\ records[3] = OldRecord
    /\ records[1].durationMs = 2 /\ records[1].processedAt = toISOString(4)
    /\ records[2].processedAt = toISOString(2)
    /\ effects = [setItem |-> <<records>>, console |-> {}]
    /\ Loaded(storage) = records

\* C4 as stated: after clearRecords a load yields the empty list
C4_AsStated ==
    [][\A throwsNow \in BOOLEAN, throwsInEffect \in BOOLEAN :
          clearRecordsWith(throwsNow, throwsInEffect) => Loaded(storage') = <<>>]_vars

\* C4, amended: clearRecords empties the history in memory and hands the empty
\* list to persistRecords in the same step.  Unless setItem throws in both of
\* the step's writes (then storage keeps what it held and the failure is only
\* logged), a load yields the empty list from then on until a record is
\* prepended, also when the clear happens while a batch is running.
C4_Step ==
    /\ \A throwsNow \in BOOLEAN, throwsInEffect \in BOOLEAN :
          clearRecordsWith(throwsNow, throwsInEffect) =>
              /\ records' = <<>>
              /\ effects'.setItem = << <<>>, <<>> >>
              /\ IF throwsNow /\ throwsInEffect
                    THEN storage' = storage /\ effects'.console = {"storage:write"}
                    ELSE Loaded(storage') = <<>>
    /\ (pc # "boot" /\ Loaded(storage) = <<>> /\ Len(records') <= Len(records))
          => Loaded(storage') = <<>>

C4_ClearPersists == [][C4_Step]_vars

\* the history was cleared while the second document of a batch was with the
\* model, after the first had completed: memory and storage are empty
C4_Witness ==
    /\ pc = "model"
    /\ cursor = 2
    /\ documents[1].status = "complete"
    /\ Len(alerts) = 1 /\ alerts[1].message = MsgCleared
    /\ effects.setItem = << <<>>, <<>> >>
    /\ records = <<>>
    /\ storage = JSONstringify(Arr(<<>>))
    /\ Loaded(storage) = <<>>

\* the inner content of a response, as the claim and as the code class it
ContentText(response) == response.contentRaw.text
NotParsable(response) ==
    response.contentRaw.t = "string" /\ JSONparse(ContentText(response)).threw
BlankContent(response) ==
    response.contentRaw.t = "string" /\ TrimmedLength(ContentText(response)) = 0
SchemaMismatch(response) ==
    /\ response.contentRaw.t = "string"
    /\ ~JSONparse(ContentText(response)).threw
    /\ ~extractionSchema(JSONparse(ContentText(response)).value).success

\* the end of the model step for a response that cannot be used: the call
\* raised, the document is in error with the message, which is also shown as
\* an alert, nothing was added to the history or written to storage, and the
\* loop has left the document (no second request for it in this run)
FailsTheDocument(response) ==
    LET document == pendingDocuments[cursor]
        after == docOf(documents', document.id)
        raised == extractEntitiesFromText(response, idsFor(response))
    IN  /\ raised.threw /\ raised.message # <<>>
        /\ after.status = "error"
        /\ after.error = Str(raised.message)
        /\ after.record = docOf(documents, document.id).record
        /\ \E i \in DOMAIN alerts' :
              alerts'[i].type = "error" /\ alerts'[i].message = raised.message
        /\ records' = records
        /\ storage' = storage
        /\ effects'.setItem = <<>>
        /\ IF cursor < Len(pendingDocuments)
              THEN cursor' = cursor + 1 /\ pc' = "decode"
              ELSE pc' = "idle" /\ ~isProcessing'

\* C5 as stated: a non-success status, inner content that is not parsable as
\* JSON, and parsed content off the schema each fail the document
C5_AsStated ==
    [][\A response \in Answers, setItemThrows \in BOOLEAN :
          (/\ Running
           /\ afterExtractEntitiesWith(response, setItemThrows)
           /\ (~response.ok \/ NotParsable(response) \/ SchemaMismatch(response)))
          => FailsTheDocument(response)]_vars

\* C5, amended: a non-success status, inner content that is a non-blank string
\* not parsable as JSON, and parsed content off the schema each make
\* extractEntitiesFromText raise; the document ends in error with the message,
\* no record is added, nothing is written and the request is not repeated.
\* Inner content that is missing or blank is not parsed: it counts as an empty
\* object, and the document completes with a record of no entities.
C5_Step ==
    \A response \in Answers, setItemThrows \in BOOLEAN :
        (Running /\ afterExtractEntitiesWith(response, setItemThrows)) =>
            /\ (\/ ~response.ok
                \/ NotParsable(response) /\ ~BlankContent(response)
                \/ SchemaMismatch(response))
                  => FailsTheDocument(response)
            /\ (response.ok /\ (BlankContent(response)
                                 \/ response.contentRaw.t = "undefined"))
                  => LET after == docOf(documents', pendingDocuments[cursor].id)
                     IN  /\ after.status = "complete"
                         /\ after.record[1].entities = <<>>
                         /\ records' = <<after.record[1]>> \o records

C5_UnusableContentFails == [][C5_Step]_vars

\* a model call has just failed on content off the schema: the document is in
\* error, the history and storage are as they were after mounting
C5_Witness ==
    /\ \E i \in DOMAIN documents :
          documents[i].status = "error" /\ documents[i].error = Str(ErrFormat)
                /\ documents[i].record = <<>>
    /\ now = 2
    /\ records = <<OldRecord>>
    /\ Loaded(storage) = <<OldRecord>>
    /\ effects = NoEffects
    /\ \E i \in DOMAIN alerts : alerts[i].message = ErrFormat

\* C7: the record of a completed document is built from that document alone.
\* When the model call of a document settles with usable content, the record
\* attached to the document carries the document's file name and size, the
\* head of the text decoded from its own file, and the entities of the answer
\* to the request that carried that text; that very record is the new head of
\* the history; and the records of the other documents are left as they are.
C7_Step ==
    \A response \in Answers, setItemThrows \in BOOLEAN :
        (/\ Running
         /\ afterExtractEntitiesWith(response, setItemThrows)
         /\ ~extractEntitiesFromText(response, idsFor(response)).threw)
        => LET before == docOf(documents, pendingDocuments[cursor].id)
               after == docOf(documents', before.id)
               ownText == extractTextFromPdf(before.file).text
               record == after.record[1]
           IN  /\ after.record = <<record>>
               /\ record.fileName = before.file.name
               /\ record.fileSize = before.file.size
               /\ record.rawTextPreview = Slice0(ownText, PreviewLength)
               /\ response \in Responses(ownText)
               /\ record.entities =
                     extractEntitiesFromText(response, idsFor(response)).entities
               /\ \A i \in DOMAIN record.entities :
                     record.entities[i].context = Str(ownText)
               /\ records'[1] = record
               /\ \A i \in DOMAIN documents :
                     documents[i].id # before.id =>
                         docOf(documents', documents[i].id).record
                             = documents[i].record

C7_OwnContentOnly == [][C7_Step]_vars

\* the second document of a batch completed after the decode of the first had
\* failed: its record, the head of the history, is about the second file
C7_Witness ==
    /\ Len(documents) = 2
    /\ documents[1].status = "error" /\ documents[1].error = Str(ErrPdf)
    /\ documents[1].record = <<>>
    /\ documents[2].status = "complete"
    /\ documents[2].file = FileB
    /\ records # <<>>
    /\ documents[2].record = <<records[1]>>
    /\ records[1].fileName = FileB.name
    /\ records[1].entities # <<>>
    /\ records[1].durationMs = 2 /\ records[1].processedAt = toISOString(3)

\* C8: a failed storage write is only logged.  When setItem throws in the
\* persist effect that follows a completion, the failure is on the console and
\* nowhere else: the record is at the head of the history in memory, the
\* document is complete and carries it, storage holds what it held, no alert
\* reports an error, and the loop goes on as after any completion.  The same
\* holds for clearRecords: the history in memory is emptied and the user is
\* told so.
C8_Step ==
    /\ \A response \in Answers :
          (/\ Running
           /\ afterExtractEntitiesWith(response, TRUE)
           /\ ~extractEntitiesFromText(response, idsFor(response)).threw)
          => LET after == docOf(documents', pendingDocuments[cursor].id)
             IN  /\ effects'.console = {"storage:write"}
                 /\ effects'.setItem = <<records'>>
                 /\ storage' = storage
                 /\ after.status = "complete"
                 /\ records' = <<after.record[1]>> \o records
                 /\ \A i \in DOMAIN alerts' :
                       alerts'[i].type = "error" =>
                           \E j \in DOMAIN alerts : alerts[j] = alerts'[i]
                 /\ IF cursor < Len(pendingDocuments)
                       THEN /\ pc' = "decode" /\ cursor' = cursor + 1
                            /\ isProcessing'
                       ELSE pc' = "idle" /\ ~isProcessing'
    /\ clearRecordsWith(TRUE, TRUE) =>
          /\ effects'.console = {"storage:write"}
          /\ storage' = storage
          /\ records' = <<>>
          /\ alerts'[Len(alerts')].message = MsgCleared

C8_WriteFailureOnlyLogged == [][C8_Step]_vars

\* a completion whose write failed: the console has the failure, the history
\* in memory is ahead of storage, the document is complete
C8_Witness ==
    /\ effects.console = {"storage:write"}
    /\ records # <<>>
    /\ effects.setItem = <<records>>
    /\ Loaded(storage) = Tail(records)
    /\ \E i \in DOMAIN documents :
          documents[i].status = "complete" /\ documents[i].record = <<records[1]>>
    /\ \A i \in DOMAIN alerts : alerts[i].type # "error"

\* C10: a failed document stays in the list and is retried like a ready one; a
\* completed one is never processed again.  A click that starts a run queues
\* exactly the documents in ready or error, in list order, and the first of
\* them, failed before or not, enters parsing; a document in error leaves the
\* list only by removeDocument and leaves error only by entering parsing; a
\* completed document never changes again while it is in the list.
C10_Step ==
    /\ (pc = "idle" /\ pc' = "decode") =>
          /\ \A i \in DOMAIN documents :
                (documents[i].status \in {"ready", "error"})
                    <=> (\E j \in DOMAIN pendingDocuments' :
                            pendingDocuments'[j] = documents[i])
          /\ \A j, k \in DOMAIN pendingDocuments' :
                j < k => \E a, b \in DOMAIN documents :
                            /\ a < b
                            /\ documents[a] = pendingDocuments'[j]
                            /\ documents[b] = pendingDocuments'[k]
          /\ \A j \in DOMAIN pendingDocuments' :
                docOf(documents', pendingDocuments'[j].id).status =
                    (IF j = 1 THEN "parsing" ELSE pendingDocuments'[j].status)
    /\ \A i \in DOMAIN documents :
          LET after == docOf(documents', documents[i].id)
          IN  /\ after.status = "removed" => (~isProcessing /\ removeDocument)
              /\ documents[i].status = "error" =>
                    after.status \in {"error", "parsing", "removed"}
              /\ documents[i].status = "complete" =>
                    after \in {documents[i], [status |-> "removed"]}
              /\ (Running' /\ after.status = "parsing"
                     /\ documents[i].status # "parsing") =>
                    /\ documents[i].status \in {"ready", "error"}
                    /\ pendingDocuments'[cursor'].id = documents[i].id

C10_RetryFailedOnly == [][C10_Step]_vars

\* a second run is under way for the document that failed in the first, while
\* the document that completed in the first is not in its queue
C10_Witness ==
    /\ pc = "decode"
    /\ Len(documents) = 2
    /\ Len(pendingDocuments) = 1
    /\ pendingDocuments[1].status = "error"
    /\ docOf(documents, pendingDocuments[1].id).status = "parsing"
    /\ \E i \in DOMAIN documents :
          documents[i].status = "complete" /\ documents[i].id # pendingDocuments[1].id

----------------------------------------------------------------------------
(* The library functions on their own: a run calls one of them with one    *)
(* input                                                                   *)

\* the application is not running in the harnesses
frame == <<documents, records, settings, alerts, isProcessing, isRecordsHydrated,
           storage, pc, pendingDocuments, cursor, runSettings, parsingStart,
           rawText, now, uploads, selectable, effects>>

InitLibrary ==
    /\ documents = <<>>
    /\ records = <<>>
    /\ settings = NoSettings
    /\ alerts = <<>>
    /\ isProcessing = FALSE
    /\ isRecordsHydrated = FALSE
    /\ storage = AbsentItem
    /\ pc = "library"
    /\ pendingDocuments = <<>>
    /\ cursor = 0
    /\ runSettings = NoSettings
    /\ parsingStart = 0
    /\ rawText = <<>>
    /\ now = 0
    /\ uploads = 0
    /\ selectable = {}
    /\ effects = NoEffects
    /\ call = NoCall

\* entities in one answer of the model
MaxEntities == 2

Snippet == <<"c", "t", "x">>
Valid == EntityFrom(Snippet, <<"G">>)

\* entity objects as the model can write them: within the rules and off them
EntityVariants ==
    { Valid,
      EmptyEntity,
      [Valid EXCEPT !.confidence = Num(ConfidenceMin)],
      [Valid EXCEPT !.confidence = Num(ConfidenceMax)],
      [Valid EXCEPT !.confidence = Null, !.context = Null, !.resistance = Str(<<"r">>)],
      [Valid EXCEPT !.taxonomy_id = Num(5620), !.genus = Str(<<" ", "G", " ">>)],
      [Valid EXCEPT !.confidence = Num(ConfidenceMax + 1)],
      [Valid EXCEPT !.confidence = Num(ConfidenceMin - 1)],
      [Valid EXCEPT !.confidence = Str(<<"0", ".", "9">>)],
      [Valid EXCEPT !.context = Str(Snippet)],
      [Valid EXCEPT !.context = Obj(Undefined)],
      [Valid EXCEPT !.context = Obj(Num(1))],
      [Valid EXCEPT !.genus = Num(1)],
      [Valid EXCEPT !.resistance = Arr(<<Str(<<"r">>), Num(1)>>)],
      [Valid EXCEPT !.taxonomy_id = Bool(TRUE)],
      Str(<<"G">>),
      [Valid EXCEPT !.taxonomy_id = Num(0), !.confidence = Num(1)],
      [Valid EXCEPT !.taxonomy_id = Str(<<>>), !.confidence = Num(2)],
      [Valid EXCEPT !.taxonomy_id = Str(<<"5", "6", "2">>), !.confidence = Num(3)],
      [f \in DOMAIN Valid \cup {"id"} |-> IF f = "id" THEN 1 ELSE Valid[f]] }

\* the identifiers the model wrote into its answer
RawIds(content) ==
    IF content.t = "object" /\ content.entities.t = "array"
        THEN {content.entities.a[i].id :
                i \in {j \in DOMAIN content.entities.a :
                            "id" \in DOMAIN content.entities.a[j]}}
        ELSE {}

EntityLists == UNION {[1..k -> EntityVariants] : k \in 0..MaxEntities}

\* the parsed inner contents handed to extractionSchema
RawContents ==
    {Content(Arr(list), Undefined) : list \in EntityLists}
        \cup {Content(v, Undefined) : v \in {Undefined, Null, Str(<<"x">>), Num(1),
                                             Obj(Str(<<"x">>)), Bool(FALSE)}}
        \cup {Content(Arr(<<Valid>>), v) : v \in {Obj(Arr(<<Str(<<"k">>)>>)), Obj(Undefined),
                                                  Obj(Arr(<<Num(1)>>)), Null}}
        \cup {Null, Str(<<"x">>), Arr(<<>>)}

callExtractionSchema ==
    /\ call = NoCall
    /\ \E content \in RawContents :
         call' = [op |-> "extractionSchema", arg |-> content,
                  result |-> extractionSchema(content)]
    /\ UNCHANGED frame

callExtractEntitiesFromText ==
    /\ call = NoCall
    /\ \E content \in RawContents :
         LET response == HttpOk(TextContent(JsonText(content)))
         IN  call' = [op |-> "extractEntitiesFromText", arg |-> content,
                      result |-> extractEntitiesFromText(
                                    response,
                                    randomUUIDs(RawIds(content), entityCount(response)))]
    /\ UNCHANGED frame

NextNorm == callExtractionSchema \/ callExtractEntitiesFromText

SpecNorm == InitLibrary /\ [][NextNorm]_vars

\* records in one stored history
MaxStored == 2

StoredRecordVariants ==
    { OldRecord,
      buildExtractionRecord(
          [fileName |-> FileA.name, fileSize |-> FileA.size, startedAt |-> 0,
           finishedAt |-> 2, rawText |-> Snippet,
           entities |-> <<toMicrobialEntity(entitySchemaOut(Valid), 1)>>], 2) }

\* what getItem can return for the records key
StoredTexts ==
    {AbsentItem, EmptyText, BlankText, GarbageText}
        \cup {JsonText(v) : v \in {Null, Num(0), Num(7), Str(<<>>), Str(<<"[", "]">>),
                                   Bool(TRUE), Bool(FALSE), Obj(Null),
                                   Obj(Arr(<<>>))}}
        \cup {JSONstringify(Arr(list)) :
                list \in UNION {[1..k -> StoredRecordVariants] : k \in 0..MaxStored}}

callLoadStoredRecords ==
    /\ call = NoCall
    /\ \E windowDefined \in BOOLEAN, getItemThrows \in BOOLEAN, raw \in StoredTexts :
         call' = [op |-> "loadStoredRecords",
                  arg |-> [windowDefined |-> windowDefined,
                           getItemThrows |-> getItemThrows, raw |-> raw],
                  result |-> loadStoredRecords(windowDefined, getItemThrows, raw)]
    /\ UNCHANGED frame

\* persistRecords on a slot, then loadStoredRecords from it
callPersistThenLoad ==
    /\ call = NoCall
    /\ \E windowDefined \in BOOLEAN, setItemThrows \in BOOLEAN,
          raw \in {AbsentItem, GarbageText},
          list \in UNION {[1..k -> StoredRecordVariants] : k \in 0..MaxStored} :
         LET persisted == persistRecords(windowDefined, setItemThrows, list, raw)
         IN  call' = [op |-> "persistThenLoad",
                      arg |-> [windowDefined |-> windowDefined,
                               setItemThrows |-> setItemThrows, raw |-> raw,
                               list |-> list],
                      result |-> loadStoredRecords(windowDefined, FALSE, persisted.slot)]
    /\ UNCHANGED frame

NextStore == callLoadStoredRecords \/ callPersistThenLoad

SpecStore == InitLibrary /\ [][NextStore]_vars

----------------------------------------------------------------------------
(* Properties of the library functions *)

Present(v) == v.t \notin {"undefined", "null"}

\* an entity of the raw answer that breaks a field rule
Violates(e) ==
    \/ e.t # "object"
    \/ /\ e.t = "object"
       /\ \/ e.confidence.t = "number" /\ (e.confidence.n < 0 \/ e.confidence.n > 10)
          \/ Present(e.confidence) /\ e.confidence.t # "number"
          \/ Present(e.context)
                /\ ~(e.context.t = "object" /\ e.context.a[1].t = "string")
          \/ \E f \in StringFields \cup {"note"} : Present(e[f]) /\ e[f].t # "string"
          \/ Present(e.taxonomy_id) /\ e.taxonomy_id.t \notin {"string", "number"}
          \/ Present(e.resistance)
                /\ e.resistance.t # "string"
                /\ ~(e.resistance.t = "array"
                       /\ \A i \in DOMAIN e.resistance.a : e.resistance.a[i].t = "string")

\* the raw content has entities that are no list, or a list with such an entity
Malformed(content) ==
    \/ content.entities.t \notin {"array", "undefined"}
    \/ /\ content.entities.t = "array"
       /\ \E i \in DOMAIN content.entities.a : Violates(content.entities.a[i])

\* C6: normalization is all-or-nothing.  For content whose entities are not a
\* list, or hold one entity that breaks a field rule, extractionSchema fails
\* and yields no entity, and extractEntitiesFromText raises the format error
\* and yields no entity; whenever normalization succeeds it yields one entity
\* for every entity of the input, none dropped.
C6_AllOrNothing ==
    (call.op \in {"extractionSchema", "extractEntitiesFromText"}
        /\ call.arg.t = "object") =>
        LET content == call.arg
            given == IF content.entities.t = "array"
                        THEN Len(content.entities.a) ELSE 0
        IN  IF call.op = "extractionSchema"
              THEN /\ Malformed(content) =>
                        ~call.result.success /\ call.result.entities = <<>>
                   /\ call.result.success => Len(call.result.entities) = given
              ELSE /\ Malformed(content) =>
                        /\ call.result.threw
                        /\ call.result.message = ErrFormat
                        /\ call.result.entities = <<>>
                   /\ ~call.result.threw => Len(call.result.entities) = given

\* a list of a valid entity and one with confidence 1.1 was refused as a whole
C6_Witness ==
    /\ call.op = "extractEntitiesFromText"
    /\ call.arg.t = "object"
    /\ call.arg.entities =
            Arr(<<Valid, [Valid EXCEPT !.confidence = Num(ConfidenceMax + 1)]>>)
    /\ call.result.threw
    /\ call.result.entities = <<>>

\* C9: loadStoredRecords never raises, and yields the empty list without a
\* window, when getItem throws, for a key that is not set, for text that does
\* not deserialize and for a stored value that is no array; a stored array is
\* handed back as it is.
C9_LoadNeverRaises ==
    /\ call.op = "persistThenLoad" => ~call.result.threw
    /\ call.op = "loadStoredRecords" =>
          LET raw == call.arg.raw
              unusable == \/ ~call.arg.windowDefined
                          \/ call.arg.getItemThrows
                          \/ raw.kind \in {"absent", "empty", "blank", "garbage"}
                          \/ raw.kind = "json" /\ raw.value.t # "array"
          IN  /\ ~call.result.threw
              /\ unusable => call.result.result = <<>>
              /\ ~unusable => call.result.result = raw.value.a

\* text that is no JSON was read from the slot: the load yields the empty list
\* and the failure is on the console
C9_Witness ==
    /\ call.op = "loadStoredRecords"
    /\ call.arg.windowDefined /\ ~call.arg.getItemThrows
    /\ call.arg.raw = GarbageText
    /\ ~call.result.threw
    /\ call.result.result = <<>>
    /\ call.result.logged = {"storage:read"}

----------------------------------------------------------------------------
(* The export functions on their own: a run exports one record *)

\* entities in one exported record
MaxExportEntities == 2

Ampicillin == <<"a", "m", "p", "i", "c", "i", "l", "l", "i", "n">>
Tetracycline == <<"t", "e", "t", "r", "a", "c", "y", "c", "l", "i", "n", "e">>

\* an entity with every scalar null and no resistance
BlankEntity == toMicrobialEntity(EmptyEntity, 1)

\* entities as a record of the history can hold them
ExportEntities ==
    { BlankEntity,
      [BlankEntity EXCEPT !.genus = Str(<<"G">>),
                          !.source = Str(<<"a", ",", "b">>),
                          !.resistance = <<Ampicillin, Tetracycline>>],
      [BlankEntity EXCEPT !.taxonomy_id = Str(<<"5", "6", "2">>),
                          !.pathogenicity = Str(<<"x", "\"", "y">>),
                          !.context = Str(<<"l", "\n", "m">>),
                          !.confidence = Num(9)],
      [BlankEntity EXCEPT !.strain = Str(<<"\"", ",">>),
                          !.resistance = << <<"r", "\"">> >>,
                          !.confidence = Num(10)],
      [f \in DOMAIN BlankEntity \ {"resistance", "context"} |->
          IF f = "genus" THEN Str(<<>>) ELSE BlankEntity[f]] }

ExportNames ==
    { <<"p", "a", "p", "e", "r", ".", "P", "D", "F">>,
      <<"a", ".", "p", "d", "f">>,
      <<"a">>,
      <<"a", ".", "t", "x", "t">>,
      <<"a", ".", "p", "d", "f", ".", "b", "a", "k">>,
      <<"a", "\\", "x", "p", "d", "F">> }

ExportRecords ==
    { buildExtractionRecord(
          [fileName |-> name, fileSize |-> 1, startedAt |-> 0, finishedAt |-> 1,
           entities |-> list, rawText |-> <<"t">>], 2) :
        name \in ExportNames,
        list \in UNION {[1..k -> ExportEntities] : k \in 0..MaxExportEntities} }

callDownloadRecordAsJson ==
    /\ call = NoCall
    /\ \E record \in ExportRecords :
         call' = [op |-> "downloadRecordAsJson", arg |-> record,
                  result |-> downloadRecordAsJson(record)]
    /\ UNCHANGED frame

callDownloadRecordAsCsv ==
    /\ call = NoCall
    /\ \E record \in ExportRecords :
         call' = [op |-> "downloadRecordAsCsv", arg |-> record,
                  result |-> downloadRecordAsCsv(record)]
    /\ UNCHANGED frame

NextExport == callDownloadRecordAsJson \/ callDownloadRecordAsCsv

SpecExport == InitLibrary /\ [][NextExport]_vars

----------------------------------------------------------------------------
(* Properties of the export functions *)

Exported == call.op \in {"downloadRecordAsJson", "downloadRecordAsCsv"}

\* the name without a trailing ".pdf" in either case
WithoutDotPdf(name) ==
    LET n == Len(name)
    IN  IF n >= 4 /\ name[n - 3] = "."
                  /\ [i \in 1..3 |-> Canonicalize(name[n - 3 + i])] = <<"P", "D", "F">>
          THEN SubSeq(name, 1, n - 4)
          ELSE name

\* C11: the export file name is the record's file name without a trailing
\* ".pdf" (in either case), followed by "-micr-ai" and the extension of the
\* export, .json or .csv.
C11_AsStated ==
    Exported =>
        call.result.fileName =
            WithoutDotPdf(call.arg.fileName) \o <<"-", "m", "i", "c", "r", "-", "a", "i">>
                \o (IF call.op = "downloadRecordAsJson"
                      THEN <<".", "j", "s", "o", "n">>
                      ELSE <<".", "c", "s", "v">>)

\* the text with every double quote written twice
RECURSIVE Doubled(_)
Doubled(text) ==
    IF text = <<>> THEN <<>>
    ELSE Doubled(SubSeq(text, 1, Len(text) - 1))
            \o (IF text[Len(text)] = "\"" THEN <<"\"", "\"">> ELSE <<text[Len(text)]>>)

Quoted(text) == <<"\"">> \o text \o <<"\"">>

\* the cell the encoding rule gives for one column of an entity
RuleCell(entity, field) ==
    IF field \notin DOMAIN entity THEN <<>>
    ELSE IF field = "resistance"
        THEN Quoted(Doubled(Join(entity.resistance, <<";", " ">>)))
    ELSE IF ~Present(entity[field]) THEN <<>>
    ELSE LET scalar == Doubled(IF entity[field].t = "number"
                                 THEN NumberToString(entity[field].n)
                                 ELSE entity[field].s)
         IN  IF \E i \in DOMAIN scalar : scalar[i] \in {",", "\n"}
               THEN Quoted(scalar) ELSE scalar

Columns == <<"genus", "species", "subspecies", "serovar", "strain", "mlst_st",
             "taxonomy_id", "source", "resistance", "pathogenicity", "context",
             "confidence">>

HeaderLine ==
    <<"g", "e", "n", "u", "s", ",", "s", "p", "e", "c", "i", "e", "s", ",",
      "s", "u", "b", "s", "p", "e", "c", "i", "e", "s", ",",
      "s", "e", "r", "o", "v", "a", "r", ",", "s", "t", "r", "a", "i", "n", ",",
      "m", "l", "s", "t", "_", "s", "t", ",",
      "t", "a", "x", "o", "n", "o", "m", "y", "_", "i", "d", ",",
      "s", "o", "u", "r", "c", "e", ",",
      "r", "e", "s", "i", "s", "t", "a", "n", "c", "e", ",",
      "p", "a", "t", "h", "o", "g", "e", "n", "i", "c", "i", "t", "y", ",",
      "c", "o", "n", "t", "e", "x", "t", ",",
      "c", "o", "n", "f", "i", "d", "e", "n", "c", "e">>

\* C17: the CSV export is the fixed header of twelve columns and then one row
\* per entity in record order, the lines joined by newlines and the cells of a
\* row by commas; a resistance list is joined with "; " and always quoted, a
\* null or absent scalar is an empty unquoted cell, any other scalar has its
\* double quotes doubled and is quoted only if it holds a comma or a newline.
C17_CsvEncoding ==
    call.op = "downloadRecordAsCsv" =>
        LET entities == call.arg.entities
            ruleRow(entity) == Join([c \in DOMAIN Columns |-> RuleCell(entity, Columns[c])],
                                    <<",">>)
        IN  /\ Len(Columns) = 12
            /\ call.result.content =
                  Join(<<HeaderLine>> \o [i \in DOMAIN entities |-> ruleRow(entities[i])],
                       <<"\n">>)

\* the export of a record with one entity: genus G, a source with a comma, the
\* resistance list of ampicillin and tetracycline, everything else null
C17_Witness ==
    /\ call.op = "downloadRecordAsCsv"
    /\ Len(call.arg.entities) = 1
    /\ "resistance" \in DOMAIN call.arg.entities[1]
    /\ call.arg.entities[1].resistance = <<Ampicillin, Tetracycline>>
    /\ call.arg.entities[1].species = Null
    /\ call.result.content =
          HeaderLine \o <<"\n">> \o <<"G", ",", ",", ",", ",", ",", ",", ",">>
            \o <<"\"", "a", ",", "b", "\"", ",">>
            \o <<"\"">> \o Ampicillin \o <<";", " ">> \o Tetracycline \o <<"\"">>
            \o <<",", ",", ",">>

----------------------------------------------------------------------------
(* Properties of the records the pipeline builds *)

\* C12: processedAt of a record the pipeline produces is the ISO-8601 form of
\* the wall-clock time at which the extraction of its document completed.
C12_AsStated ==
    [][\A response \in Answers, setItemThrows \in BOOLEAN :
          (/\ Running
           /\ afterExtractEntitiesWith(response, setItemThrows)
           /\ ~extractEntitiesFromText(response, idsFor(response)).threw)
          => docOf(documents', pendingDocuments[cursor].id).record[1].processedAt
                = toISOString(DateNow')]_vars

----------------------------------------------------------------------------
(* Properties of the normalized entities *)

\* the summary of the raw content is as the schema expects
SummaryConforms(content) ==
    \/ content.summary.t = "undefined"
    \/ /\ content.summary.t = "object"
       /\ \/ content.summary.a[1].t = "undefined"
          \/ /\ content.summary.a[1].t = "array"
             /\ \A i \in DOMAIN content.summary.a[1].a :
                   content.summary.a[1].a[i].t = "string"

\* the entity objects of the raw content
Given(content) == IF content.entities.t = "array" THEN content.entities.a ELSE <<>>

Normalized ==
    /\ call.op = "extractEntitiesFromText"
    /\ call.arg.t = "object"
    /\ ~call.result.threw

\* C13: a response of the expected shape is normalized, to one entity per
\* entity object of the input and in input order (the i-th output carries the
\* i-th input's genus, trimmed, and confidence); every output entity has an
\* id, the ids of one answer differ from each other and none of them is an id
\* the model wrote into its answer.
C13_OnePerInputFreshIds ==
    /\ (call.op = "extractEntitiesFromText" /\ call.arg.t = "object"
            /\ ~Malformed(call.arg) /\ SummaryConforms(call.arg))
          => ~call.result.threw
    /\ Normalized =>
          LET in == Given(call.arg)
              out == call.result.entities
          IN  /\ Len(out) = Len(in)
              /\ \A i \in DOMAIN out :
                    /\ out[i].genus = (IF in[i].genus.t = "string"
                                         THEN Str(Trim(in[i].genus.s)) ELSE Null)
                    /\ out[i].confidence = (IF in[i].confidence.t = "number"
                                              THEN in[i].confidence ELSE Null)
                    /\ out[i].id \in Nat \ RawIds(call.arg)
              /\ \A i, j \in DOMAIN out : i # j => out[i].id # out[j].id

\* an answer of two entities, the first of them carrying an id of the model's:
\* two entities come out in that order, with two new ids
C13_Witness ==
    /\ Normalized
    /\ Len(call.result.entities) = 2
    /\ "id" \in DOMAIN call.arg.entities.a[1]
    /\ call.arg.entities.a[2].confidence = Num(ConfidenceMax)
    /\ call.result.entities[2].confidence = Num(ConfidenceMax)
    /\ call.result.entities[1].id # call.result.entities[2].id
    /\ call.arg.entities.a[1].id \notin {call.result.entities[1].id,
                                          call.result.entities[2].id}

\* C14: taxonomy_id is stored as a string.  A raw taxonomy_id that is a string
\* or a number is normalized to its string form, and the normalized value is
\* null exactly when the raw value is absent or null.
C14_AsStated ==
    Normalized =>
        \A i \in DOMAIN call.result.entities :
            LET raw == Given(call.arg)[i].taxonomy_id
                out == call.result.entities[i].taxonomy_id
            IN  /\ raw.t = "string" => out = Str(raw.s)
                /\ raw.t = "number" => out = Str(NumberToString(raw.n))
                /\ out = Null <=> raw.t \in {"undefined", "null"}

----------------------------------------------------------------------------
(* buildExtractionRecord called on its own *)

MaxRecordEntities == 6

\* the entity of the example: no strain, one resistance
SalmonellaEntity ==
    [BlankEntity EXCEPT !.genus = Str(<<"S", "a", "l", "m", "o", "n", "e", "l", "l", "a">>),
                        !.species = Str(<<"e", "n", "t", "e", "r", "i", "c", "a">>),
                        !.serovar = Str(<<"T", "y", "p", "h", "i", "m", "u", "r", "i",
                                          "u", "m">>),
                        !.resistance = <<Ampicillin>>]

\* entities as buildExtractionRecord can be handed them
RecordEntities ==
    { SalmonellaEntity,
      [BlankEntity EXCEPT !.genus = Str(SalmonellaEntity.genus.s \o <<" ">>
                                            \o SalmonellaEntity.species.s),
                          !.strain = Str(<<"K", "1", "2">>),
                          !.resistance = <<Ampicillin, Tetracycline>>],
      [BlankEntity EXCEPT !.species = Str(<<"s", "p">>)],
      [f \in DOMAIN BlankEntity \ {"resistance", "context"} |->
          IF f = "genus" THEN Str(<<>>) ELSE BlankEntity[f]] }

RecordParams ==
    { [fileName |-> <<"a", ".", "p", "d", "f">>, fileSize |-> 1, startedAt |-> 0,
       finishedAt |-> 1, entities |-> list, rawText |-> <<"t">>] :
        list \in UNION {[1..k -> RecordEntities] : k \in 0..MaxRecordEntities} }

callBuildExtractionRecord ==
    /\ call = NoCall
    /\ \E params \in RecordParams :
         call' = [op |-> "buildExtractionRecord", arg |-> params,
                  result |-> buildExtractionRecord(params, 1)]
    /\ UNCHANGED frame

SpecRecord == InitLibrary /\ [][callBuildExtractionRecord]_vars

----------------------------------------------------------------------------
(* Properties of the summary of a record *)

Built == call.op = "buildExtractionRecord"

\* the text of property f of an entity, empty when it is absent, null or ""
TextOf(e, f) ==
    IF f \in DOMAIN e /\ e[f].t = "string" THEN e[f].s ELSE <<>>

\* the non-empty ones of the given texts, a single space between neighbours
RECURSIVE Spaced(_)
Spaced(texts) ==
    IF texts = <<>> THEN <<>>
    ELSE IF Head(texts) = <<>> THEN Spaced(Tail(texts))
    ELSE IF Spaced(Tail(texts)) = <<>> THEN Head(texts)
    ELSE Head(texts) \o <<" ">> \o Spaced(Tail(texts))

SpeciesLabel(e) == Spaced(<<TextOf(e, "genus"), TextOf(e, "species")>>)

\* the positions at which a non-empty genus/species label occurs first
FirstOccurrences(entities) ==
    {i \in DOMAIN entities :
        /\ SpeciesLabel(entities[i]) # <<>>
        /\ \A j \in 1..(i - 1) : SpeciesLabel(entities[j]) # SpeciesLabel(entities[i])}

\* every resistance string of the list, by entity and position
ResistanceStrings(entities) ==
    UNION {{<<i, k>> : k \in DOMAIN entities[i].resistance} :
              i \in {j \in DOMAIN entities : "resistance" \in DOMAIN entities[j]}}

\* C15: for every entity list handed to buildExtractionRecord, organismCount
\* is the length of the list, uniqueSpecies is the number of distinct non-empty
\* genus/species labels (an entity with neither genus nor species adds
\* nothing) and is at most organismCount, and resistanceCount is the number of
\* resistance strings of all entities together.
C15_SummaryCounts ==
    Built =>
        LET entities == call.arg.entities
            summary == call.result.summary
        IN  /\ summary.organismCount = Len(entities)
            /\ summary.uniqueSpecies = Cardinality(FirstOccurrences(entities))
            /\ summary.uniqueSpecies <= summary.organismCount
            /\ summary.resistanceCount = Cardinality(ResistanceStrings(entities))

\* a list with a repeated label, an entity with neither genus nor species and
\* several resistance strings
C15_Witness ==
    /\ Built
    /\ \E i, j \in DOMAIN call.arg.entities :
         /\ i # j
         /\ SpeciesLabel(call.arg.entities[i]) = SpeciesLabel(call.arg.entities[j])
         /\ SpeciesLabel(call.arg.entities[i]) # <<>>
    /\ \E i \in DOMAIN call.arg.entities : SpeciesLabel(call.arg.entities[i]) = <<>>
    /\ call.result.summary.uniqueSpecies = 2
    /\ call.result.summary.uniqueSpecies < call.result.summary.organismCount
    /\ call.result.summary.resistanceCount > 2

\* the label of the example
SalmonellaEnterica ==
    <<"S", "a", "l", "m", "o", "n", "e", "l", "l", "a", " ",
      "e", "n", "t", "e", "r", "i", "c", "a">>

\* the label of one entity in keyFindings
FindingOf(e) ==
    LET label == Spaced(<<TextOf(e, "genus"), TextOf(e, "species"),
                          TextOf(e, "strain")>>)
    IN  IF label = <<>> THEN Placeholder ELSE label

\* C16: keyFindings has min(5, number of entities) labels; the i-th label is
\* built from the i-th entity as its present genus, species and strain with
\* single spaces between them, or is the placeholder when the entity has none
\* of the three; the entity of genus Salmonella, species enterica, serovar
\* Typhimurium and no strain has the label "Salmonella enterica".
C16_KeyFindings ==
    /\ FindingOf(SalmonellaEntity) = SalmonellaEnterica
    /\ Built =>
          LET entities == call.arg.entities
              keyFindings == call.result.summary.keyFindings
          IN  /\ Len(keyFindings) = Min(KeyFindingsMax, Len(entities))
              /\ \A i \in DOMAIN keyFindings : keyFindings[i] = FindingOf(entities[i])

\* more entities than labels kept: the fifth label is that of the example,
\* the first is the placeholder, the sixth entity has no label
C16_Witness ==
    /\ Built
    /\ Len(call.arg.entities) > KeyFindingsMax
    /\ Len(call.result.summary.keyFindings) = KeyFindingsMax
    /\ call.arg.entities[KeyFindingsMax] = SalmonellaEntity
    /\ call.result.summary.keyFindings[KeyFindingsMax] = SalmonellaEnterica
    /\ call.result.summary.keyFindings[1] = Placeholder

----------------------------------------------------------------------------
(* The page before any run: start-up and the upload list *)

\* what the records key of localStorage can hold when the page is opened
IntakeStorage ==
    {AbsentItem, GarbageText, JsonText(Obj(Arr(<<>>)))}
        \cup {JSONstringify(Arr(list)) : list \in [1..MaxStored -> StoredRecordVariants]}

InitIntake ==
    /\ documents = <<>>
    /\ records = <<>>
    /\ settings = NoSettings
    /\ alerts = <<>>
    /\ isProcessing = FALSE
    /\ isRecordsHydrated = FALSE
    /\ storage \in IntakeStorage
    /\ pc = "boot"
    /\ pendingDocuments = <<>>
    /\ cursor = 0
    /\ runSettings = NoSettings
    /\ parsingStart = 0
    /\ rawText = <<>>
    /\ now = 0
    /\ uploads = 0
    /\ selectable = Files
    /\ effects = NoEffects
    /\ call = NoCall

NextIntake ==
    \/ Mount
    \/ handleFileInput
    \/ removeDocument
    \/ dismissAlert

SpecIntake == InitIntake /\ [][NextIntake]_vars

----------------------------------------------------------------------------
(* Properties of the upload list and of start-up *)

\* a file the application supports: a PDF of at most 20 MB
Supported(file) == file.type = PdfType /\ file.size <= MAX_FILE_SIZE

\* the files of a selection that are (not) supported, in the order selected
SupportedOf(files) == SelectSeq(files, Supported)
UnsupportedOf(files) == SelectSeq(files, LAMBDA f : ~Supported(f))

\* the first k characters of a text
Prefix(text, k) == SubSeq(text, 1, Min(k, Len(text)))

ErrorAlerts(shown) == SelectSeq(shown, LAMBDA alert : alert.type = "error")

C18_Step ==
    \A files \in Selections :
        handleFileInputOf(files) =>
            LET good == SupportedOf(files)
                bad == UnsupportedOf(files)
                errors == ErrorAlerts(alerts')
            IN  /\ Len(errors) = Len(bad)
                /\ \A i \in DOMAIN bad :
                      Prefix(errors[i].message, Len(bad[i].name)) = bad[i].name
                /\ Len(documents') = Len(documents) + Len(good)
                /\ \A i \in DOMAIN documents : documents'[i] = documents[i]
                /\ \A i \in DOMAIN good :
                      LET doc == documents'[Len(documents) + i]
                      IN  /\ doc.file = good[i]
                          /\ doc.fileName = good[i].name
                          /\ doc.status = "ready"
                          /\ \A j \in DOMAIN documents' :
                                j # Len(documents) + i => documents'[j].id # doc.id

\* C18: rejection is per file.  Every file of a selection that is not a PDF or
\* is larger than 20 MB gets an error alert naming it, every other file of the
\* same selection is appended to the list as a document in status ready, and
\* no document of the list is ever one of a rejected file.
C18_RejectionPerFile ==
    /\ [](\A i \in DOMAIN documents : Supported(documents[i].file))
    /\ [][C18_Step]_vars

\* a selection of a file over the limit and one of exactly the limit: one
\* error alert naming the first, one document for the second
C18_Witness ==
    /\ Len(alerts) = 2
    /\ alerts[1] = Alert(alerts[1].id, "error", FileBig.name \o MsgTooBig)
    /\ alerts[2].type = "success"
    /\ {FileBig, FileEdge} \cap selectable = {}
    /\ \E i \in DOMAIN documents :
          documents[i].file = FileEdge /\ documents[i].status = "ready"
    /\ \A i \in DOMAIN documents : documents[i].file # FileBig

C19_Step ==
    \A getItemThrows \in BOOLEAN, setItemThrows \in BOOLEAN :
        mountWith(getItemThrows, setItemThrows) =>
            LET loaded == loadStoredRecords(TRUE, getItemThrows, storage).result
            IN  /\ records' = loaded
                /\ effects'.setItem = <<loaded>>
                /\ ~setItemThrows => Loaded(storage') = loaded
                /\ setItemThrows => storage' = storage

\* C19: the stored history is not overwritten before it has been loaded.
\* While the hydration flag is unset nothing has been handed to persistRecords
\* and the storage slot is as the page found it; the step that sets the flag
\* makes one write, of exactly the list loadStoredRecords returned, never of
\* the initial empty list.
C19_NoWriteBeforeLoad ==
    /\ [](~isRecordsHydrated =>
            effects.setItem = <<>> /\ records = <<>> /\ storage \in IntakeStorage)
    /\ [][~isRecordsHydrated' => storage' = storage]_vars
    /\ [][C19_Step]_vars

\* the page has started on a stored history of MaxStored records: they are the
\* one list written and they are still what storage holds
C19_Witness ==
    /\ isRecordsHydrated
    /\ pc = "idle"
    /\ Len(records) = MaxStored
    /\ effects.setItem = <<records>>
    /\ Loaded(storage) = records

----------------------------------------------------------------------------
(* Agreement of a document's status, record and error message *)

\* C20: in every reachable state the status, record and error message of each
\* document agree: a complete document has a record and no error message, and
\* a document has an error message only while its status is error; this
\* includes a document that failed once and completed when it was retried.
C20_AsStated ==
    \A i \in DOMAIN documents :
        /\ documents[i].status = "complete" =>
              documents[i].record # <<>> /\ ~Truthy(documents[i].error)
        /\ Truthy(documents[i].error) => documents[i].status = "error"

====
